---------------------------- MODULE Spec2Model ----------------------------
(***************************************************************************)
(* A model of enva's environment-manager core:                             *)
(*   - the package-manager detector (src/src/package_manager.rs),          *)
(*   - the manager, its global singleton and its creation lock             *)
(*     (src/src/micromamba.rs),                                            *)
(*   - the command handlers that drive them (src/src/env.rs).              *)
(*                                                                         *)
(* Three specifications share the module:                                  *)
(*   SpecDetector  one detector instance, called repeatedly on a host      *)
(*                 whose backends come and go;                             *)
(*   Spec          NTasks concurrent tasks calling the manager's API;      *)
(*   SpecCommands  one task running the command handlers and the           *)
(*                 constructors, one call at a time;                       *)
(*   SpecPure      the functions of their arguments alone (validate_yaml,  *)
(*                 parse_conda_env_list), called on bounded inputs.        *)
(***************************************************************************)
EXTENDS Integers, Sequences, FiniteSets, TLC

VARIABLES
    \* ---- detector specification
    det,          \* the detector: [detected, order]
    dhost,        \* the host's backends: command name -> absent/broken/working
    dcall,        \* the last call on the detector and what it returned
    \* ---- manager specification
    pc,           \* task -> position in the code
    cmd,          \* task -> command handler running ("none": direct API call)
    args,         \* task -> arguments of the call in progress
    res,          \* task -> result of the call ("none" while running)
    spawned,      \* task -> subprocesses spawned so far by the call in progress
    proc,         \* task -> subprocess the task awaits now ("none" if none)
    handle,       \* task -> the manager the task holds (NoManager if none)
    global,       \* GLOBAL_MANAGER's content: NoManager or the manager
    initialized,  \* GLOBAL_INITIALIZED's content
    gmLock,       \* holder of GLOBAL_MANAGER's mutex (0: free)
    giLock,       \* holder of GLOBAL_INITIALIZED's mutex (0: free)
    lockHolder,   \* creation lock id -> holder (0: free)
    ctor,         \* the construction (MicromambaManager::new) in progress
    \* ---- function specification
    pcall,        \* the last call of a function of its arguments alone
    \* ---- registry specification
    registry,     \* a manager's environments: name -> stored status
    lcall,        \* the call in progress on that manager
    \* ---- installer specification
    inst          \* install_micromamba: the target path and the invocation

dvars == <<det, dhost, dcall>>
mvars == <<pc, cmd, args, res, spawned, proc, handle, global, initialized,
           gmLock, giLock, lockHolder, ctor>>
rvars == <<registry, lcall>>
xvars == <<pcall, registry, lcall, inst>>
vars == <<det, dhost, dcall, pc, cmd, args, res, spawned, proc, handle,
          global, initialized, gmLock, giLock, lockHolder, ctor, pcall,
          registry, lcall, inst>>

----------------------------------------------------------------------------
(***************************************************************************)
(* Package managers (package_manager.rs)                                   *)
(***************************************************************************)

\* enum PackageManager
Recognized == {"Conda", "Mamba", "Micromamba"}
PackageManager == Recognized \cup {"None"}

\* PackageManager::command
Command(pm) ==
    CASE pm = "Conda" -> "conda"
      [] pm = "Mamba" -> "mamba"
      [] pm = "Micromamba" -> "micromamba"
      [] OTHER -> ""

CommandNames == {"conda", "mamba", "micromamba"}

\* A host: for each backend command, whether it is missing from the search
\* path ("absent"), on the path but failing `--version` ("broken"), or on the
\* path and passing it ("working").
Hosts == [CommandNames -> {"absent", "broken", "working"}]

\* which(cmd): an empty command name is never found
Which(h, c) == c \in CommandNames /\ h[c] # "absent"

\* Command::new(cmd).arg("--version").output() with a successful status
VersionOk(h, c) == c \in CommandNames /\ h[c] = "working"

\* PackageManagerDetector::check_available, presence alone (a broken install passes)
CheckAvailablePresenceOnly(h, pm) == Which(h, Command(pm))

\* PackageManagerDetector::check_available
CheckAvailable(h, pm) ==
    IF Which(h, Command(pm)) THEN VersionOk(h, Command(pm)) ELSE FALSE

\* The version probes check_available(pm) spawns: one if the command is on the path
ProbesOf(h, pm) == IF Which(h, Command(pm)) THEN <<Command(pm)>> ELSE <<>>

\* PackageManagerDetector::new: nothing detected, conda -> mamba -> micromamba
DefaultOrder == <<"Conda", "Mamba", "Micromamba">>
NewDetector == [detected |-> "unset", order |-> DefaultOrder]

\* The loop of detect(): the first kind of order[i..] that is available, with
\* the kinds checked and the probes spawned on the way
RECURSIVE DetectLoop(_, _, _)
DetectLoop(order, h, i) ==
    IF i > Len(order)
    THEN [ret |-> "None", checked |-> <<>>, probes |-> <<>>]
    ELSE IF CheckAvailable(h, order[i])
         THEN [ret |-> order[i], checked |-> <<order[i]>>,
               probes |-> ProbesOf(h, order[i])]
         ELSE LET r == DetectLoop(order, h, i + 1)
              IN  [ret |-> r.ret, checked |-> <<order[i]>> \o r.checked,
                   probes |-> ProbesOf(h, order[i]) \o r.probes]

\* detect() that probes again on every call (no memoization)
DetectNoCache(d, h) ==
    LET r == DetectLoop(d.order, h, 1)
    IN  [det |-> [d EXCEPT !.detected = r.ret], ok |-> TRUE, ret |-> r.ret,
         checked |-> r.checked, probes |-> r.probes]

\* PackageManagerDetector::detect
Detect(d, h) ==
    IF d.detected # "unset"
    THEN [det |-> d, ok |-> TRUE, ret |-> d.detected,
          checked |-> <<>>, probes |-> <<>>]
    ELSE LET r == DetectLoop(d.order, h, 1)
         IN  [det |-> [d EXCEPT !.detected = r.ret], ok |-> TRUE, ret |-> r.ret,
              checked |-> r.checked, probes |-> r.probes]

\* detect_specific that fails hard when the forced kind is unavailable
DetectSpecificHard(d, h, pm) ==
    IF CheckAvailable(h, pm)
    THEN [det |-> [d EXCEPT !.detected = pm], ok |-> TRUE, ret |-> pm,
          checked |-> <<pm>>, probes |-> ProbesOf(h, pm)]
    ELSE [det |-> d, ok |-> FALSE, ret |-> "None",
          checked |-> <<pm>>, probes |-> ProbesOf(h, pm)]

\* detect_specific that answers from the cache once a kind is cached
DetectSpecificKeepsCache(d, h, pm) ==
    IF d.detected = "unset" /\ CheckAvailable(h, pm)
    THEN [det |-> [d EXCEPT !.detected = pm], ok |-> TRUE, ret |-> pm,
          checked |-> <<pm>>, probes |-> ProbesOf(h, pm)]
    ELSE Detect(d, h)

\* PackageManagerDetector::detect_specific
DetectSpecific(d, h, pm) ==
    IF CheckAvailable(h, pm)
    THEN [det |-> [d EXCEPT !.detected = pm], ok |-> TRUE, ret |-> pm,
          checked |-> <<pm>>, probes |-> ProbesOf(h, pm)]
    ELSE LET r == Detect(d, h)
         IN  [r EXCEPT !.checked = <<pm>> \o r.checked,
                       !.probes = ProbesOf(h, pm) \o r.probes]

\* Values of ENVA_PACKAGE_MANAGER: unset, the three names (one in mixed case),
\* and two values that name no kind
EnvValues == {"unset", "conda", "mamba", "micromamba", "Mamba", "none", "pip"}

\* str::to_lowercase on the values above
ToLowercase(s) == IF s = "Mamba" THEN "mamba" ELSE s

\* The kind an override value names, "None" if it names none
OverrideKind(ev) ==
    CASE ToLowercase(ev) = "conda" -> "Conda"
      [] ToLowercase(ev) = "mamba" -> "Mamba"
      [] ToLowercase(ev) = "micromamba" -> "Micromamba"
      [] OTHER -> "None"

\* PackageManagerDetector::detect_with_env_override
DetectWithEnvOverride(d, h, ev) ==
    IF ev # "unset" /\ OverrideKind(ev) # "None"
    THEN DetectSpecific(d, h, OverrideKind(ev))
    ELSE Detect(d, h)

----------------------------------------------------------------------------
(***************************************************************************)
(* The detector specification: one PackageManagerDetector instance         *)
(***************************************************************************)

\* Longest detection order handed to with_order
MaxOrderLen == 2

\* Detection orders: sequences of distinct kinds
Orders ==
    {o \in UNION {[1..n -> PackageManager] : n \in 0..MaxOrderLen} :
        \A i, j \in DOMAIN o : i # j => o[i] # o[j]}

NoCall == [op |-> "none", arg |-> "none", before |-> NewDetector, ok |-> TRUE,
           ret |-> "None", checked |-> <<>>, probes |-> <<>>]

\* The record of a call: what was called, on which detector, what came back
CallRecord(op, arg, r) ==
    [op |-> op, arg |-> arg, before |-> det, ok |-> r.ok, ret |-> r.ret,
     checked |-> r.checked, probes |-> r.probes]

\* PackageManagerDetector::new
DetNew ==
    /\ det' = NewDetector
    /\ dcall' = NoCall
    /\ UNCHANGED <<dhost, mvars, xvars>>

\* PackageManagerDetector::with_order
DetWithOrder(o) ==
    /\ det' = [detected |-> "unset", order |-> o]
    /\ dcall' = NoCall
    /\ UNCHANGED <<dhost, mvars, xvars>>

\* a call of detect()
DetDetect ==
    LET r == Detect(det, dhost)
    IN  /\ det' = r.det
        /\ dcall' = CallRecord("detect", "none", r)
        /\ UNCHANGED <<dhost, mvars, xvars>>

\* a call of detect_specific(pm)
DetDetectSpecific(pm) ==
    LET r == DetectSpecific(det, dhost, pm)
    IN  /\ det' = r.det
        /\ dcall' = CallRecord("specific", pm, r)
        /\ UNCHANGED <<dhost, mvars, xvars>>

\* a call of detect_with_env_override() with ENVA_PACKAGE_MANAGER = ev
DetOverride(ev) ==
    LET r == DetectWithEnvOverride(det, dhost, ev)
    IN  /\ det' = r.det
        /\ dcall' = CallRecord("override", ev, r)
        /\ UNCHANGED <<dhost, mvars, xvars>>

\* Strings as sequences of characters. Environment names: the strings of at
\* most MaxNameLen characters over a letter, a space and a dash
MaxNameLen == 2
NameChars == {"e", " ", "-"}
EnvStrings == UNION {[1..n -> NameChars] : n \in 0..MaxNameLen}

\* PackageManager::command, as characters
CommandText(pm) ==
    CASE pm = "Conda" -> <<"c", "o", "n", "d", "a">>
      [] pm = "Mamba" -> <<"m", "a", "m", "b", "a">>
      [] pm = "Micromamba" -> <<"m", "i", "c", "r", "o", "m", "a", "m", "b", "a">>
      [] OTHER -> <<>>

\* run_syntax that gives the environment name alone for every kind
RunSyntaxBare(pm, env) == env

\* PackageManager::run_syntax: format!("conda run -n {}", env) and so on
RunSyntax(pm, env) ==
    CASE pm = "Conda" ->
           <<"c", "o", "n", "d", "a", " ", "r", "u", "n", " ", "-", "n", " ">>
               \o env
      [] pm = "Mamba" ->
           <<"m", "a", "m", "b", "a", " ", "r", "u", "n", " ", "-", "n", " ">>
               \o env
      [] pm = "Micromamba" ->
           <<"m", "i", "c", "r", "o", "m", "a", "m", "b", "a",
             " ", "r", "u", "n", " ", "-", "n", " ">> \o env
      [] OTHER -> env

\* PackageManagerDetector::get_run_command
GetRunCommand(d, env) ==
    IF d.detected = "unset" THEN env ELSE RunSyntax(d.detected, env)

\* Between two calls the host changes: backends are installed, break, vanish
HostChange(h) ==
    /\ h # dhost
    /\ dhost' = h
    /\ dcall' = NoCall
    /\ UNCHANGED <<det, mvars, xvars>>

----------------------------------------------------------------------------
(***************************************************************************)
(* The manager (micromamba.rs): values, locks, subprocesses                *)
(***************************************************************************)

\* Concurrent tasks
NTasks == 2
Tasks == 1..NTasks

\* initialize_environments' fixed list of recognized environment names
NumEnvNames == 4

\* Identities of creation locks (Arc<Mutex<()>>) and of manager values
LockIds == 1..(NTasks + 2)
InstIds == 1..(NTasks + 2)

\* A MicromambaManager value: which value it is (inst), its backend kind and
\* path, and which lock its creation_lock points to.  The registry is
\* modelled with the operations that read it.
NoManager == [inst |-> 0, pm_type |-> "None", pm_path |-> "", lock |-> 0]

\* An identity no live manager value carries / a lock no live manager points to
UsedInsts == {global.inst} \cup {handle[t].inst : t \in Tasks}
UsedLocks == {global.lock} \cup {handle[t].lock : t \in Tasks}
FreshInst == CHOOSE i \in InstIds \ UsedInsts : \A j \in InstIds \ UsedInsts : i <= j
FreshLock == CHOOSE l \in LockIds \ UsedLocks : \A j \in LockIds \ UsedLocks : l <= j

\* Clone that builds a new lock for the copy (Arc::new instead of Arc::clone)
CloneManagerOwnLock(m) == [m EXCEPT !.inst = FreshInst, !.lock = FreshLock]

\* impl Clone for MicromambaManager: a new value, the same creation_lock
CloneManager(m) == [m EXCEPT !.inst = FreshInst]

\* Arguments of a call (fields a call does not use keep these values)
NoArgs == [op |-> "none", dry_run |-> FALSE, yaml |-> "valid", sel |-> "ok",
           packages |-> "some", todo |-> 0, succeeded |-> 0, failed |-> 0,
           argcheck |-> "ok", capture |-> TRUE, exists |-> "unknown",
           code |-> {}, all |-> FALSE, json |-> FALSE, valid |-> TRUE,
           bad |-> FALSE, targets |-> 0, attempted |-> <<>>,
           cwd_failed |-> FALSE]

\* Most targets one create command is given
MaxTargets == 2

\* What a YAML file handed to validate_yaml can be
YamlKinds == {"unreadable", "malformed", "no_dependencies", "valid"}

\* validate_yaml that lets a document through although it does not parse
ValidateYamlLenient(y) ==
    CASE y = "unreadable" -> "FileOperation"
      [] OTHER -> "Ok"

\* MicromambaManager::validate_yaml, its Result: the file is read and parsed,
\* nothing is spawned
ValidateYaml(y) ==
    CASE y = "unreadable" -> "FileOperation"
      [] y = "malformed" -> "Validation"
      [] OTHER -> "Ok"

\* Exit codes of a backend subprocess: success, failure, broken pipe
ExitCodes == {0, 1, 141}

\* The construction in progress (or just ended): the task running new(), the
\* host it saw, what detection returned, how far it is
NoHost == [avail |-> [c \in CommandNames |-> "absent"], ev |-> "unset",
           common |-> FALSE]
NoCtor == [task |-> 0, via |-> "none", saw |-> NoHost, pm_type |-> "None",
           pm_path |-> "", installer |-> FALSE, left |-> 0, stage |-> "none",
           err |-> "none"]

\* Hosts as new() finds them: the backends on the path, ENVA_PACKAGE_MANAGER,
\* and whether micromamba sits in one of the common install locations
NewHosts == [avail : Hosts, ev : EnvValues, common : BOOLEAN]

\* Hosts as with_config_dir finds them: it looks for micromamba only
MicromambaHosts ==
    {h \in NewHosts : /\ h.ev = "unset"
                      /\ h.avail["conda"] = "absent"
                      /\ h.avail["mamba"] = "absent"}

\* Where the inner operation returns to: the caller of the API, or the
\* command handler that called it
AfterOp(t, inner) == IF cmd[t] = "none" THEN "done" ELSE inner

MInit ==
    /\ pc = [t \in Tasks |-> "idle"]
    /\ cmd = [t \in Tasks |-> "none"]
    /\ args = [t \in Tasks |-> NoArgs]
    /\ res = [t \in Tasks |-> "none"]
    /\ spawned = [t \in Tasks |-> {}]
    /\ proc = [t \in Tasks |-> "none"]
    /\ handle = [t \in Tasks |-> NoManager]
    /\ global = NoManager
    /\ initialized = FALSE
    /\ gmLock = 0
    /\ giLock = 0
    /\ lockHolder = [l \in LockIds |-> 0]
    /\ ctor = NoCtor

DInit ==
    /\ det = NewDetector
    /\ dhost = [c \in CommandNames |-> "absent"]
    /\ dcall = NoCall

----------------------------------------------------------------------------
(***************************************************************************)
(* get_global_manager and MicromambaManager::new                           *)
(***************************************************************************)

\* get_global_manager that takes the initialized-flag lock first
GgmLockGlobalFlagFirst(t) ==
    /\ pc[t] = "ggm_lock_global"
    /\ giLock = 0
    /\ giLock' = t
    /\ pc' = [pc EXCEPT ![t] = "ggm_lock_init"]
    /\ UNCHANGED <<xvars, dvars, cmd, args, res, spawned, proc, handle, global,
                   initialized, gmLock, lockHolder, ctor>>

\* get_global_manager: GLOBAL_MANAGER.lock().await
GgmLockGlobal(t) ==
    /\ pc[t] = "ggm_lock_global"
    /\ gmLock = 0
    /\ gmLock' = t
    /\ pc' = [pc EXCEPT ![t] = "ggm_lock_init"]
    /\ UNCHANGED <<xvars, dvars, cmd, args, res, spawned, proc, handle, global,
                   initialized, giLock, lockHolder, ctor>>

\* get_global_manager that constructs a manager on every call
GgmLockInitAlwaysNew(t) ==
    /\ pc[t] = "ggm_lock_init"
    /\ giLock = 0
    /\ giLock' = t
    /\ pc' = [pc EXCEPT ![t] = "new_detect"]
    /\ UNCHANGED <<xvars, dvars, cmd, args, res, spawned, proc, handle, global,
                   initialized, gmLock, lockHolder, ctor>>

\* get_global_manager: GLOBAL_INITIALIZED.lock().await, then
\* if global.is_none() { Self::new() ... }
GgmLockInit(t) ==
    /\ pc[t] = "ggm_lock_init"
    /\ giLock = 0
    /\ giLock' = t
    /\ pc' = [pc EXCEPT ![t] = IF global = NoManager THEN "new_detect"
                                                      ELSE "ggm_clone"]
    /\ UNCHANGED <<xvars, dvars, cmd, args, res, spawned, proc, handle, global,
                   initialized, gmLock, lockHolder, ctor>>

\* new(), step 1: a fresh detector's detect_with_env_override on the host
NewDetect(t, h) ==
    /\ pc[t] = "new_detect"
    /\ LET r == DetectWithEnvOverride(NewDetector, h.avail, h.ev)
       IN  /\ ctor' = [NoCtor EXCEPT !.task = t, !.via = "new", !.saw = h,
                                     !.pm_type = r.ret, !.stage = "detected"]
           /\ spawned' = [spawned EXCEPT ![t] =
                 @ \cup (IF r.probes = <<>> THEN {} ELSE {"version"})]
    /\ pc' = [pc EXCEPT ![t] = "new_path"]
    /\ UNCHANGED <<xvars, dvars, cmd, args, res, proc, handle, global, initialized,
                   gmLock, giLock, lockHolder>>

\* A failed construction that leaves get_global_manager's guards alive
NewFailsKeepsLocks(t, e) ==
    /\ ctor' = [ctor EXCEPT !.stage = "failed", !.err = e]
    /\ res' = [res EXCEPT ![t] = e]
    /\ UNCHANGED <<gmLock, giLock>>
    /\ pc' = [pc EXCEPT ![t] = AfterOp(t, "ggm_ret")]

\* An error leaves the constructor and, through `?`, get_global_manager if
\* that is the caller: its guards are dropped, the singleton and the flag stay
\* as they were
NewFails(t, e) ==
    /\ ctor' = [ctor EXCEPT !.stage = "failed", !.err = e]
    /\ res' = [res EXCEPT ![t] = e]
    /\ gmLock' = IF gmLock = t THEN 0 ELSE gmLock
    /\ giLock' = IF giLock = t THEN 0 ELSE giLock
    /\ pc' = [pc EXCEPT ![t] = AfterOp(t, "ggm_ret")]

\* What normalize_and_validate_path can answer for a path that was found
PathChecks == {"Ok", "FileOperation", "PermissionDenied"}

\* find_or_install_micromamba up to its first await: "installing" when the
\* binary is neither on the path nor in a common location
FindMicromamba(h, check) ==
    IF Which(h.avail, "micromamba")
    THEN [how |-> check, path |-> "PATH/micromamba"]
    ELSE IF h.common
         THEN [how |-> check, path |-> "/usr/local/bin/micromamba"]
         ELSE [how |-> "installing", path |-> ""]

\* new(), step 2, where the None kind is sent to the installer as well
ResolvePathInstallOnNone(pm, h, check) ==
    CASE pm \in {"Conda", "Mamba"} ->
            IF Which(h.avail, Command(pm))
            THEN [how |-> "Ok", path |-> "PATH/" \o Command(pm)]
            ELSE [how |-> "Config", path |-> ""]
      [] OTHER -> FindMicromamba(h, check)

\* new(), step 2: the backend's path by kind; the None kind is a
\* configuration error
ResolvePath(pm, h, check) ==
    CASE pm \in {"Conda", "Mamba"} ->
            IF Which(h.avail, Command(pm))
            THEN [how |-> "Ok", path |-> "PATH/" \o Command(pm)]
            ELSE [how |-> "Config", path |-> ""]
      [] pm = "Micromamba" -> FindMicromamba(h, check)
      [] OTHER -> [how |-> "Config", path |-> ""]

\* new(), step 2 as a step of the task
NewPath(t, check) ==
    /\ pc[t] = "new_path"
    /\ LET p == ResolvePath(ctor.pm_type, ctor.saw, check)
       IN  CASE p.how = "Ok" ->
                  /\ ctor' = [ctor EXCEPT !.pm_path = p.path, !.stage = "resolved"]
                  /\ pc' = [pc EXCEPT ![t] = "new_init"]
                  /\ UNCHANGED <<res, gmLock, giLock>>
             [] p.how = "installing" ->
                  /\ ctor' = [ctor EXCEPT !.installer = TRUE, !.stage = "installing"]
                  /\ pc' = [pc EXCEPT ![t] = "new_install"]
                  /\ UNCHANGED <<res, gmLock, giLock>>
             [] OTHER -> NewFails(t, p.how)
    /\ UNCHANGED <<xvars, dvars, cmd, args, spawned, proc, handle, global, initialized,
                   lockHolder>>

\* How install_micromamba can end: the binary placed, or one of its errors
InstallResults == {"Ok", "Validation", "FileOperation", "Network"}

\* find_or_install_micromamba: install_micromamba().await returns
NewInstallDone(t, r) ==
    /\ pc[t] = "new_install"
    /\ IF r = "Ok"
       THEN /\ ctor' = [ctor EXCEPT !.pm_path = "INSTALL_DIR/micromamba",
                                    !.stage = "resolved"]
            /\ pc' = [pc EXCEPT ![t] = "new_init"]
            /\ UNCHANGED <<res, gmLock, giLock>>
       ELSE NewFails(t, r)
    /\ UNCHANGED <<xvars, dvars, cmd, args, spawned, proc, handle, global, initialized,
                   lockHolder>>

\* new(), step 3: initialize_environments copies the templates (which can
\* fail) and finds nfiles of the recognized names' files in the directory
NewInit(t, copyOk, nfiles) ==
    /\ pc[t] = "new_init"
    /\ IF copyOk
       THEN /\ ctor' = [ctor EXCEPT !.left = nfiles, !.stage = "environments"]
            /\ pc' = [pc EXCEPT ![t] = "new_envs"]
            /\ UNCHANGED <<res, gmLock, giLock>>
       ELSE NewFails(t, "FileOperation")
    /\ UNCHANGED <<xvars, dvars, cmd, args, spawned, proc, handle, global, initialized,
                   lockHolder>>

\* initialize_environments: environment_exists(env_name) spawns `env list --json`
NewEnvSpawn(t) ==
    /\ pc[t] = "new_envs"
    /\ ctor.left > 0
    /\ proc' = [proc EXCEPT ![t] = "env_list"]
    /\ spawned' = [spawned EXCEPT ![t] = @ \cup {"env_list"}]
    /\ pc' = [pc EXCEPT ![t] = "new_env_wait"]
    /\ UNCHANGED <<xvars, dvars, cmd, args, res, handle, global, initialized, gmLock,
                   giLock, lockHolder, ctor>>

\* initialize_environments: the listing returns; whatever it says (exists,
\* does not, failed) becomes the entry's status and the loop goes on
NewEnvDone(t) ==
    /\ pc[t] = "new_env_wait"
    /\ proc' = [proc EXCEPT ![t] = "none"]
    /\ ctor' = [ctor EXCEPT !.left = @ - 1]
    /\ pc' = [pc EXCEPT ![t] = "new_envs"]
    /\ UNCHANGED <<xvars, dvars, cmd, args, res, spawned, handle, global, initialized,
                   gmLock, giLock, lockHolder>>

\* new() returns the manager; get_global_manager stores it and sets the flag
NewFinish(t) ==
    /\ pc[t] = "new_envs"
    /\ ctor.via = "new"
    /\ ctor.left = 0
    /\ global' = [inst |-> FreshInst, pm_type |-> ctor.pm_type,
                  pm_path |-> ctor.pm_path, lock |-> FreshLock]
    /\ initialized' = TRUE
    /\ ctor' = [ctor EXCEPT !.stage = "built"]
    /\ pc' = [pc EXCEPT ![t] = "ggm_clone"]
    /\ UNCHANGED <<xvars, dvars, cmd, args, res, spawned, proc, handle, gmLock, giLock,
                   lockHolder>>

\* with_config_dir is called: no detection, the kind is Micromamba and the
\* path comes from find_or_install_micromamba
CallWithConfigDir(t, h) ==
    /\ pc[t] = "idle"
    /\ ctor.task = 0
    /\ ctor' = [NoCtor EXCEPT !.task = t, !.via = "with_config_dir", !.saw = h,
                              !.pm_type = "Micromamba", !.stage = "detected"]
    /\ pc' = [pc EXCEPT ![t] = "new_path"]
    /\ UNCHANGED <<xvars, dvars, cmd, args, res, spawned, proc, handle, global,
                   initialized, gmLock, giLock, lockHolder>>

\* with_config_dir returns the manager it built, with a lock of its own; the
\* singleton is not involved
WithConfigDirFinish(t) ==
    /\ pc[t] = "new_envs"
    /\ ctor.via = "with_config_dir"
    /\ ctor.left = 0
    /\ handle' = [handle EXCEPT ![t] =
          [inst |-> FreshInst, pm_type |-> ctor.pm_type,
           pm_path |-> ctor.pm_path, lock |-> FreshLock]]
    /\ res' = [res EXCEPT ![t] = "Ok"]
    /\ ctor' = [ctor EXCEPT !.stage = "built"]
    /\ pc' = [pc EXCEPT ![t] = "done"]
    /\ UNCHANGED <<xvars, dvars, cmd, args, spawned, proc, global, initialized, gmLock,
                   giLock, lockHolder>>

\* get_global_manager: Arc::new(Mutex::new(global.clone())), guards dropped
GgmClone(t) ==
    /\ pc[t] = "ggm_clone"
    /\ handle' = [handle EXCEPT ![t] = CloneManager(global)]
    /\ res' = [res EXCEPT ![t] = "Ok"]
    /\ gmLock' = 0
    /\ giLock' = 0
    /\ ctor' = IF ctor.task = t THEN NoCtor ELSE ctor
    /\ pc' = [pc EXCEPT ![t] = AfterOp(t, "ggm_ret")]
    /\ UNCHANGED <<xvars, dvars, cmd, args, spawned, proc, global, initialized,
                   lockHolder>>

----------------------------------------------------------------------------
(***************************************************************************)
(* create_environment, install_packages, remove_environment                *)
(***************************************************************************)

\* Drop of the `_lock` guard when the operation returns
Unlock(t) == lockHolder' = [lockHolder EXCEPT ![handle[t].lock] = 0]

\* The operation returns r to its caller
OpReturns(t, r, inner) ==
    /\ res' = [res EXCEPT ![t] = r]
    /\ pc' = [pc EXCEPT ![t] = AfterOp(t, inner)]

\* create_environment that goes on without the creation lock
CeAcquireNoLock(t) ==
    /\ pc[t] = "ce_lock"
    /\ pc' = [pc EXCEPT ![t] = "ce_validate"]
    /\ UNCHANGED <<xvars, dvars, cmd, args, res, spawned, proc, handle, global,
                   initialized, gmLock, giLock, lockHolder, ctor>>

\* create_environment: let _lock = self.creation_lock.lock().await
CeAcquire(t) ==
    /\ pc[t] = "ce_lock"
    /\ lockHolder[handle[t].lock] = 0
    /\ lockHolder' = [lockHolder EXCEPT ![handle[t].lock] = t]
    /\ pc' = [pc EXCEPT ![t] = "ce_validate"]
    /\ UNCHANGED <<xvars, dvars, cmd, args, res, spawned, proc, handle, global,
                   initialized, gmLock, giLock, ctor>>

\* create_environment whose dry-run branch is missing
CeValidateNoDryRun(t, spawnOk) ==
    /\ pc[t] = "ce_validate"
    /\ IF ValidateYaml(args[t].yaml) # "Ok"
       THEN /\ OpReturns(t, ValidateYaml(args[t].yaml), "ce_ret")
            /\ Unlock(t)
            /\ UNCHANGED <<proc, spawned>>
       ELSE IF spawnOk
            THEN /\ proc' = [proc EXCEPT ![t] = "env_create"]
                 /\ spawned' = [spawned EXCEPT ![t] = @ \cup {"env_create"}]
                 /\ pc' = [pc EXCEPT ![t] = "ce_wait"]
                 /\ UNCHANGED <<res, lockHolder>>
            ELSE /\ OpReturns(t, "Execution", "ce_ret")
                 /\ Unlock(t)
                 /\ UNCHANGED <<proc, spawned>>
    /\ UNCHANGED <<xvars, dvars, cmd, args, handle, global, initialized, gmLock,
                   giLock, ctor>>

\* create_environment under the lock: a dry run validates and returns;
\* otherwise validate, then spawn `env create -f <file> -y` (the spawn itself
\* can fail)
CeValidate(t, spawnOk) ==
    /\ pc[t] = "ce_validate"
    /\ IF args[t].dry_run \/ ValidateYaml(args[t].yaml) # "Ok"
       THEN /\ OpReturns(t, ValidateYaml(args[t].yaml), "ce_ret")
            /\ Unlock(t)
            /\ UNCHANGED <<proc, spawned>>
       ELSE IF spawnOk
            THEN /\ proc' = [proc EXCEPT ![t] = "env_create"]
                 /\ spawned' = [spawned EXCEPT ![t] = @ \cup {"env_create"}]
                 /\ pc' = [pc EXCEPT ![t] = "ce_wait"]
                 /\ UNCHANGED <<res, lockHolder>>
            ELSE /\ OpReturns(t, "Execution", "ce_ret")
                 /\ Unlock(t)
                 /\ UNCHANGED <<proc, spawned>>
    /\ UNCHANGED <<xvars, dvars, cmd, args, handle, global, initialized, gmLock,
                   giLock, ctor>>

\* create_environment that keeps the lock when the backend exits non-zero
CeFinishKeepsLock(t, exit) ==
    /\ pc[t] = "ce_wait"
    /\ proc' = [proc EXCEPT ![t] = "none"]
    /\ OpReturns(t, IF exit = 0 THEN "Ok" ELSE "Execution", "ce_ret")
    /\ IF exit = 0 THEN Unlock(t) ELSE UNCHANGED lockHolder
    /\ UNCHANGED <<xvars, dvars, cmd, args, spawned, handle, global, initialized,
                   gmLock, giLock, ctor>>

\* create_environment: the subprocess ends; a non-zero exit is an error
CeFinish(t, exit) ==
    /\ pc[t] = "ce_wait"
    /\ proc' = [proc EXCEPT ![t] = "none"]
    /\ OpReturns(t, IF exit = 0 THEN "Ok" ELSE "Execution", "ce_ret")
    /\ Unlock(t)
    /\ UNCHANGED <<xvars, dvars, cmd, args, spawned, handle, global, initialized,
                   gmLock, giLock, ctor>>

\* install_packages: let _lock = self.creation_lock.lock().await
IpAcquire(t) ==
    /\ pc[t] = "ip_lock"
    /\ lockHolder[handle[t].lock] = 0
    /\ lockHolder' = [lockHolder EXCEPT ![handle[t].lock] = t]
    /\ pc' = [pc EXCEPT ![t] = "ip_check"]
    /\ UNCHANGED <<xvars, dvars, cmd, args, res, spawned, proc, handle, global,
                   initialized, gmLock, giLock, ctor>>

\* install_packages: environment_exists spawns `env list --json`
IpCheckSpawn(t, spawnOk) ==
    /\ pc[t] = "ip_check"
    /\ IF spawnOk
       THEN /\ proc' = [proc EXCEPT ![t] = "env_list"]
            /\ spawned' = [spawned EXCEPT ![t] = @ \cup {"env_list"}]
            /\ pc' = [pc EXCEPT ![t] = "ip_check_wait"]
            /\ UNCHANGED <<res, lockHolder>>
       ELSE /\ OpReturns(t, "Execution", "ip_ret")
            /\ Unlock(t)
            /\ UNCHANGED <<proc, spawned>>
    /\ UNCHANGED <<xvars, dvars, cmd, args, handle, global, initialized, gmLock,
                   giLock, ctor>>

\* What environment_exists can answer once the listing has run: the
\* environment is listed, is not, the listing failed, or it did not parse
ExistsResults == {"true", "false", "Execution", "Validation"}

\* install_packages that installs whatever the existence check answers
IpCheckDoneIgnored(t, r) ==
    /\ pc[t] = "ip_check_wait"
    /\ proc' = [proc EXCEPT ![t] = "none"]
    /\ args' = [args EXCEPT ![t].exists = r]
    /\ IF r \in {"true", "false"}
       THEN /\ pc' = [pc EXCEPT ![t] = "ip_install"]
            /\ UNCHANGED <<res, lockHolder>>
       ELSE /\ OpReturns(t, r, "ip_ret")
            /\ Unlock(t)
    /\ UNCHANGED <<xvars, dvars, cmd, spawned, handle, global, initialized,
                   gmLock, giLock, ctor>>

\* install_packages: the existence check returns; an absent environment is
\* an execution error, a failed check is returned as it is, and the lock
\* guard is dropped on every return
IpCheckDone(t, r) ==
    /\ pc[t] = "ip_check_wait"
    /\ proc' = [proc EXCEPT ![t] = "none"]
    /\ args' = [args EXCEPT ![t].exists = r]
    /\ IF r = "true"
       THEN /\ pc' = [pc EXCEPT ![t] = "ip_install"]
            /\ UNCHANGED <<res, lockHolder>>
       ELSE /\ OpReturns(t, IF r = "false" THEN "Execution" ELSE r, "ip_ret")
            /\ Unlock(t)
    /\ UNCHANGED <<xvars, dvars, cmd, spawned, handle, global, initialized,
                   gmLock, giLock, ctor>>

\* install_packages: spawn `install -n <env> -c conda-forge -c bioconda -y ...`
IpSpawn(t, spawnOk) ==
    /\ pc[t] = "ip_install"
    /\ IF spawnOk
       THEN /\ proc' = [proc EXCEPT ![t] = "install"]
            /\ spawned' = [spawned EXCEPT ![t] = @ \cup {"install"}]
            /\ pc' = [pc EXCEPT ![t] = "ip_wait"]
            /\ UNCHANGED <<res, lockHolder>>
       ELSE /\ OpReturns(t, "Execution", "ip_ret")
            /\ Unlock(t)
            /\ UNCHANGED <<proc, spawned>>
    /\ UNCHANGED <<xvars, dvars, cmd, args, handle, global, initialized, gmLock,
                   giLock, ctor>>

\* install_packages: the subprocess ends
IpFinish(t, exit) ==
    /\ pc[t] = "ip_wait"
    /\ proc' = [proc EXCEPT ![t] = "none"]
    /\ OpReturns(t, IF exit = 0 THEN "Ok" ELSE "Execution", "ip_ret")
    /\ Unlock(t)
    /\ UNCHANGED <<xvars, dvars, cmd, args, spawned, handle, global, initialized,
                   gmLock, giLock, ctor>>

\* remove_environment: spawn `env remove -n <env> -y`; no lock is taken
RmSpawn(t, spawnOk) ==
    /\ pc[t] = "rm_spawn"
    /\ IF spawnOk
       THEN /\ proc' = [proc EXCEPT ![t] = "env_remove"]
            /\ spawned' = [spawned EXCEPT ![t] = @ \cup {"env_remove"}]
            /\ pc' = [pc EXCEPT ![t] = "rm_wait"]
            /\ UNCHANGED res
       ELSE /\ OpReturns(t, "Execution", "rm_ret")
            /\ UNCHANGED <<proc, spawned>>
    /\ UNCHANGED <<xvars, dvars, cmd, args, handle, global, initialized, gmLock,
                   giLock, lockHolder, ctor>>

\* remove_environment: the subprocess ends
RmFinish(t, exit) ==
    /\ pc[t] = "rm_wait"
    /\ proc' = [proc EXCEPT ![t] = "none"]
    /\ OpReturns(t, IF exit = 0 THEN "Ok" ELSE "Execution", "rm_ret")
    /\ UNCHANGED <<xvars, dvars, cmd, args, spawned, handle, global, initialized,
                   gmLock, giLock, lockHolder, ctor>>

----------------------------------------------------------------------------
(***************************************************************************)
(* validate_yaml in full (micromamba.rs)                                   *)
(***************************************************************************)

\* Longest dependency sequence of a document
MaxDeps == 2

\* A YAML file: whether it can be read, whether its text parses, and the
\* parsed value: its root (a mapping or not), its `name` entry (absent, a
\* string, or a value of another type such as the number 2024) and its
\* `dependencies` entry (absent, null, a scalar, or a sequence)
NameFields ==
    {[type |-> "absent", text |-> ""], [type |-> "string", text |-> "test-env"],
     [type |-> "string", text |-> "unknown"], [type |-> "number", text |-> "2024"]}
DepFields ==
    {[type |-> ty, len |-> 0] : ty \in {"absent", "null", "scalar"}}
        \cup {[type |-> "sequence", len |-> n] : n \in 0..MaxDeps}
YamlFiles ==
    [readable : BOOLEAN, parses : BOOLEAN, root : {"mapping", "scalar"},
     name : NameFields, deps : DepFields]

\* serde_yaml's Value::get(key): the entry, if the value is a mapping that
\* has it
GetName(f) ==
    IF f.root = "mapping" THEN f.name ELSE [type |-> "absent", text |-> ""]
GetDeps(f) ==
    IF f.root = "mapping" THEN f.deps ELSE [type |-> "absent", len |-> 0]

NoValidation == [err |-> "none", environment |-> "", syntax_valid |-> FALSE,
                 estimated_packages |-> 0, estimated_size_mb |-> 0]

\* validate_yaml that does not count the dependencies
ValidateYamlResultUncounted(f) ==
    IF ~f.readable THEN [NoValidation EXCEPT !.err = "FileOperation"]
    ELSE IF ~f.parses THEN [NoValidation EXCEPT !.err = "Validation"]
    ELSE [err |-> "Ok",
          environment |-> IF GetName(f).type = "string"
                          THEN GetName(f).text ELSE "unknown",
          syntax_valid |-> GetDeps(f).type # "absent",
          estimated_packages |-> 0,
          estimated_size_mb |-> 0]

\* MicromambaManager::validate_yaml, the ValidationResult it builds
ValidateYamlResult(f) ==
    IF ~f.readable THEN [NoValidation EXCEPT !.err = "FileOperation"]
    ELSE IF ~f.parses THEN [NoValidation EXCEPT !.err = "Validation"]
    ELSE LET n == IF GetDeps(f).type = "sequence" THEN GetDeps(f).len ELSE 0
         IN  [err |-> "Ok",
              environment |-> IF GetName(f).type = "string"
                              THEN GetName(f).text ELSE "unknown",
              syntax_valid |-> GetDeps(f).type # "absent",
              estimated_packages |-> n,
              estimated_size_mb |-> n * 10]

\* The record of a call of a function: its name, its argument, its result
NoPCall == [op |-> "none", arg |-> <<>>, out |-> <<>>]

\* The detectors get_run_command may be called on
Detectors == [detected : {"unset"} \cup PackageManager, order : {DefaultOrder}]

\* a call of run_syntax on a kind
PureRunSyntax(pm, env) ==
    /\ pcall = NoPCall
    /\ pcall' = [op |-> "run_syntax", arg |-> <<pm, env>>,
                 out |-> RunSyntax(pm, env)]
    /\ UNCHANGED <<dvars, mvars, registry, lcall, inst>>

\* a call of get_run_command(env_name) on a detector
PureGetRunCommand(d, env) ==
    /\ pcall = NoPCall
    /\ pcall' = [op |-> "get_run_command", arg |-> <<d.detected, env>>,
                 out |-> GetRunCommand(d, env)]
    /\ UNCHANGED <<dvars, mvars, registry, lcall, inst>>

\* The recognized environment names: xdxtools-core, -r, -snakemake, -extra
EnvNames == 1..NumEnvNames

\* The names a registry of the registry specification may hold
MaxRegistry == 3
RegistryNames == {n \in EnvNames : n <= MaxRegistry}

\* The statuses initialize_environments stores
InitialStatuses == {"Installed", "NotInstalled", "Error"}

\* The registries a constructed manager can hold: an entry for each name
\* whose file existed, with the status the existence check gave
Registries == UNION {[ks -> InitialStatuses] : ks \in SUBSET RegistryNames}

NoRegistry == [n \in {} |-> "NotInstalled"]

\* What with_config_dir found and did: the recognized files the directory
\* held, the templates the build has, whether copying was skipped
NoDir == [built |-> FALSE, files |-> {}, srcs |-> {}, skipped |-> FALSE,
          fail |-> "none"]
NoLCall == [op |-> "none", before |-> NoRegistry, todo |-> {}, out |-> <<>>,
            res |-> "none", dir |-> NoDir, answers |-> NoRegistry]

\* The target path of the installer: nothing there, the binary, a directory,
\* a directory holding bin/micromamba
TargetStates == {"absent", "file", "dir", "dir_nested"}

\* What is remembered of the previous invocation of the installer
NoPrev == [res |-> "none", requests |-> 0]

\* No invocation of the installer yet, the target path in state target, on
\* a supported platform with a home directory
NoInstall(target) ==
    [supported |-> TRUE, dirKnown |-> TRUE, target |-> target,
     stage |-> "idle", start |-> "absent", source |-> 0, requests |-> 0,
     wrote |-> FALSE, extracted |-> FALSE, res |-> "none",
     runs |-> 0, prev |-> NoPrev,
     contacted |-> <<>>, placed |-> FALSE, meta_failed |-> FALSE,
     last_error |-> "none"]

XInit ==
    /\ pcall = NoPCall
    /\ registry = NoRegistry
    /\ lcall = NoLCall
    /\ inst = NoInstall("absent")

\* validate_yaml is called on a file
PureValidateYaml(f) ==
    /\ pcall = NoPCall
    /\ pcall' = [op |-> "validate_yaml", arg |-> f, out |-> ValidateYamlResult(f)]
    /\ UNCHANGED <<dvars, mvars, rvars, inst>>

----------------------------------------------------------------------------
(***************************************************************************)
(* Callers: tasks that use the manager's API directly                      *)
(***************************************************************************)

ClearCtor(t) == ctor' = IF ctor.task = t THEN NoCtor ELSE ctor

\* A task calls MicromambaManager::get_global_manager()
CallGetGlobalManager(t) ==
    /\ pc[t] = "idle"
    /\ pc' = [pc EXCEPT ![t] = "ggm_lock_global"]
    /\ UNCHANGED <<xvars, dvars, cmd, args, res, spawned, proc, handle, global,
                   initialized, gmLock, giLock, lockHolder, ctor>>

\* A task calls create_environment(yaml_file, dry_run) on the manager it holds
CallCreateEnvironment(t, dry, y) ==
    /\ pc[t] = "idle"
    /\ handle[t] # NoManager
    /\ args' = [args EXCEPT ![t] = [NoArgs EXCEPT !.dry_run = dry, !.yaml = y]]
    /\ pc' = [pc EXCEPT ![t] = "ce_lock"]
    /\ UNCHANGED <<xvars, dvars, cmd, res, spawned, proc, handle, global, initialized,
                   gmLock, giLock, lockHolder, ctor>>

\* A task calls validate_yaml(yaml_file) on the manager it holds: the file is
\* read and parsed in one step, there is no suspension point
CallValidateYaml(t, y) ==
    /\ pc[t] = "idle"
    /\ handle[t] # NoManager
    /\ args' = [args EXCEPT ![t] = [NoArgs EXCEPT !.op = "validate_yaml",
                                                  !.yaml = y]]
    /\ res' = [res EXCEPT ![t] = ValidateYaml(y)]
    /\ pc' = [pc EXCEPT ![t] = "done"]
    /\ UNCHANGED <<xvars, dvars, cmd, spawned, proc, handle, global, initialized,
                   gmLock, giLock, lockHolder, ctor>>

\* A task calls install_packages(env_name, packages) on the manager it holds
CallInstallPackages(t) ==
    /\ pc[t] = "idle"
    /\ handle[t] # NoManager
    /\ pc' = [pc EXCEPT ![t] = "ip_lock"]
    /\ UNCHANGED <<xvars, dvars, cmd, args, res, spawned, proc, handle, global,
                   initialized, gmLock, giLock, lockHolder, ctor>>

\* A task calls remove_environment(env_name) on the manager it holds
CallRemoveEnvironment(t) ==
    /\ pc[t] = "idle"
    /\ handle[t] # NoManager
    /\ pc' = [pc EXCEPT ![t] = "rm_spawn"]
    /\ UNCHANGED <<xvars, dvars, cmd, args, res, spawned, proc, handle, global,
                   initialized, gmLock, giLock, lockHolder, ctor>>

\* A task is handed a reference to the very manager value another task holds
ShareManager(t, u) ==
    /\ pc[t] = "idle"
    /\ t # u
    /\ handle[u] # NoManager
    /\ handle[t] # handle[u]
    /\ handle' = [handle EXCEPT ![t] = handle[u]]
    /\ UNCHANGED <<xvars, dvars, pc, cmd, args, res, spawned, proc, global,
                   initialized, gmLock, giLock, lockHolder, ctor>>

\* A task clones the manager value another task holds
CloneFrom(t, u) ==
    /\ pc[t] = "idle"
    /\ t # u
    /\ handle[u] # NoManager
    /\ handle[t] = NoManager
    /\ handle' = [handle EXCEPT ![t] = CloneManager(handle[u])]
    /\ UNCHANGED <<xvars, dvars, pc, cmd, args, res, spawned, proc, global,
                   initialized, gmLock, giLock, lockHolder, ctor>>

\* The call is over: its result has been seen, its frame is gone (a command
\* handler's manager handle with it)
Return(t) ==
    /\ pc[t] = "done"
    /\ pc' = [pc EXCEPT ![t] = "idle"]
    /\ handle' = [handle EXCEPT ![t] = IF cmd[t] = "none" THEN @ ELSE NoManager]
    /\ cmd' = [cmd EXCEPT ![t] = "none"]
    /\ args' = [args EXCEPT ![t] = NoArgs]
    /\ res' = [res EXCEPT ![t] = "none"]
    /\ spawned' = [spawned EXCEPT ![t] = {}]
    /\ ClearCtor(t)
    /\ UNCHANGED <<xvars, dvars, proc, global, initialized, gmLock, giLock, lockHolder>>

----------------------------------------------------------------------------
(***************************************************************************)
(* Command handlers (env.rs)                                               *)
(***************************************************************************)

\* What the create command's flags select: targets, nothing, or --yaml
\* without --name
Selections == {"ok", "none_selected", "yaml_no_name", "yaml_named"}

\* The targets a selection gives: n standard names, or the one name given
\* with --yaml, or none
TargetCount(sel, n) ==
    IF sel = "ok" THEN n ELSE IF sel = "yaml_named" THEN 1 ELSE 0

\* A command handler starts: it fetches the global manager first
StartCommand(t, c, a) ==
    /\ pc[t] = "idle"
    /\ cmd' = [cmd EXCEPT ![t] = c]
    /\ args' = [args EXCEPT ![t] = a]
    /\ handle' = [handle EXCEPT ![t] = NoManager]
    /\ pc' = [pc EXCEPT ![t] = "ggm_lock_global"]
    /\ UNCHANGED <<xvars, dvars, res, spawned, proc, global, initialized, gmLock,
                   giLock, lockHolder, ctor>>

\* execute_env_create is called
StartEnvCreate(t, dry, sel, n) ==
    StartCommand(t, "env_create",
        [NoArgs EXCEPT !.dry_run = dry, !.sel = sel,
                       !.todo = TargetCount(sel, n),
                       !.targets = TargetCount(sel, n)])

\* execute_env_create after get_global_manager: its error becomes an
\* execution error; then the selection is validated; a dry run prints the
\* targets and returns; otherwise the loop over the targets starts
EcAfterGgm(t) ==
    /\ pc[t] = "ggm_ret"
    /\ cmd[t] = "env_create"
    /\ IF res[t] # "Ok"
       THEN /\ res' = [res EXCEPT ![t] = "Execution"]
            /\ pc' = [pc EXCEPT ![t] = "done"]
       ELSE IF args[t].sel \in {"none_selected", "yaml_no_name"}
            THEN /\ res' = [res EXCEPT ![t] = "Validation"]
                 /\ pc' = [pc EXCEPT ![t] = "done"]
            ELSE IF args[t].dry_run
                 THEN /\ res' = [res EXCEPT ![t] = "Ok"]
                      /\ pc' = [pc EXCEPT ![t] = "done"]
                 ELSE /\ res' = [res EXCEPT ![t] = "none"]
                      /\ pc' = [pc EXCEPT ![t] = "ec_loop"]
    /\ ClearCtor(t)
    /\ UNCHANGED <<xvars, dvars, cmd, args, spawned, proc, handle, global, initialized,
                   gmLock, giLock, lockHolder>>

\* execute_env_create's loop: the next target's YAML file goes to
\* create_environment(&yaml_file, dry_run); after the last one the counts decide
EcLoop(t, y, cwdOk) ==
    /\ pc[t] = "ec_loop"
    /\ IF args[t].todo = 0
       THEN /\ res' = [res EXCEPT ![t] =
                  IF args[t].failed > 0 THEN "Execution" ELSE "Ok"]
            /\ pc' = [pc EXCEPT ![t] = "done"]
            /\ UNCHANGED args
       ELSE IF args[t].sel = "ok" /\ ~cwdOk
            THEN /\ args' = [args EXCEPT ![t].cwd_failed = TRUE]
                 /\ res' = [res EXCEPT ![t] = "FileOperation"]
                 /\ pc' = [pc EXCEPT ![t] = "done"]
            ELSE /\ args' = [args EXCEPT
                       ![t].yaml = y,
                       ![t].attempted =
                           Append(@, args[t].targets - args[t].todo + 1)]
                 /\ pc' = [pc EXCEPT ![t] = "ce_lock"]
                 /\ UNCHANGED res
    /\ UNCHANGED <<xvars, dvars, cmd, spawned, proc, handle, global, initialized,
                   gmLock, giLock, lockHolder, ctor>>

\* execute_env_create's loop that gives up at the first failed target
EcCollectAbort(t) ==
    /\ pc[t] = "ce_ret"
    /\ cmd[t] = "env_create"
    /\ args' = [args EXCEPT ![t].todo = IF res[t] = "Ok" THEN @ - 1 ELSE 0,
                            ![t].succeeded = IF res[t] = "Ok" THEN @ + 1 ELSE @,
                            ![t].failed = IF res[t] = "Ok" THEN @ ELSE @ + 1]
    /\ res' = [res EXCEPT ![t] = "none"]
    /\ pc' = [pc EXCEPT ![t] = "ec_loop"]
    /\ UNCHANGED <<xvars, dvars, cmd, spawned, proc, handle, global, initialized,
                   gmLock, giLock, lockHolder, ctor>>

\* execute_env_create's loop: the target's result is counted
EcCollect(t) ==
    /\ pc[t] = "ce_ret"
    /\ cmd[t] = "env_create"
    /\ args' = [args EXCEPT ![t].todo = @ - 1,
                            ![t].succeeded = IF res[t] = "Ok" THEN @ + 1 ELSE @,
                            ![t].failed = IF res[t] = "Ok" THEN @ ELSE @ + 1]
    /\ res' = [res EXCEPT ![t] = "none"]
    /\ pc' = [pc EXCEPT ![t] = "ec_loop"]
    /\ UNCHANGED <<xvars, dvars, cmd, spawned, proc, handle, global, initialized,
                   gmLock, giLock, lockHolder, ctor>>

\* execute_env_install is called with a package list that is empty or not
StartEnvInstall(t, pk) ==
    StartCommand(t, "env_install", [NoArgs EXCEPT !.packages = pk])

\* execute_env_install after get_global_manager: an empty package list is a
\* validation error, otherwise install_packages is called
EiAfterGgm(t) ==
    /\ pc[t] = "ggm_ret"
    /\ cmd[t] = "env_install"
    /\ IF res[t] # "Ok"
       THEN /\ res' = [res EXCEPT ![t] = "Execution"]
            /\ pc' = [pc EXCEPT ![t] = "done"]
       ELSE IF args[t].packages = "empty"
            THEN /\ res' = [res EXCEPT ![t] = "Validation"]
                 /\ pc' = [pc EXCEPT ![t] = "done"]
            ELSE /\ res' = [res EXCEPT ![t] = "none"]
                 /\ pc' = [pc EXCEPT ![t] = "ip_lock"]
    /\ ClearCtor(t)
    /\ UNCHANGED <<xvars, dvars, cmd, args, spawned, proc, handle, global, initialized,
                   gmLock, giLock, lockHolder>>

\* execute_env_install returns what install_packages returned
EiReturn(t) ==
    /\ pc[t] = "ip_ret"
    /\ cmd[t] = "env_install"
    /\ pc' = [pc EXCEPT ![t] = "done"]
    /\ UNCHANGED <<xvars, dvars, cmd, args, res, spawned, proc, handle, global,
                   initialized, gmLock, giLock, lockHolder, ctor>>

\* execute_env_remove is called
StartEnvRemove(t) == StartCommand(t, "env_remove", NoArgs)

\* execute_env_remove after get_global_manager: remove_environment is called
ErAfterGgm(t) ==
    /\ pc[t] = "ggm_ret"
    /\ cmd[t] = "env_remove"
    /\ IF res[t] # "Ok"
       THEN /\ res' = [res EXCEPT ![t] = "Execution"]
            /\ pc' = [pc EXCEPT ![t] = "done"]
       ELSE /\ res' = [res EXCEPT ![t] = "none"]
            /\ pc' = [pc EXCEPT ![t] = "rm_spawn"]
    /\ ClearCtor(t)
    /\ UNCHANGED <<xvars, dvars, cmd, args, spawned, proc, handle, global, initialized,
                   gmLock, giLock, lockHolder>>

\* execute_env_remove returns what remove_environment returned
ErReturn(t) ==
    /\ pc[t] = "rm_ret"
    /\ cmd[t] = "env_remove"
    /\ pc' = [pc EXCEPT ![t] = "done"]
    /\ UNCHANGED <<xvars, dvars, cmd, args, res, spawned, proc, handle, global,
                   initialized, gmLock, giLock, lockHolder, ctor>>

----------------------------------------------------------------------------
(***************************************************************************)
(* The run command (env_run.rs) and run_in_environment_extended            *)
(***************************************************************************)

\* What get_env_name, get_command and validate_args find in the arguments:
\* nothing wrong, no environment name, no command, neither --command nor
\* --script nor a positional command, both --command and --script, a script
\* file that does not exist, a variable pair without '='
RunArgChecks == {"ok", "missing_name", "missing_command", "no_command", "both",
                 "script_missing", "bad_env_pair"}

\* execute_env_run that does not validate its arguments
StartEnvRunUnchecked(t, check, capture) ==
    /\ pc[t] = "idle"
    /\ cmd' = [cmd EXCEPT ![t] = "env_run"]
    /\ args' = [args EXCEPT ![t] = [NoArgs EXCEPT !.argcheck = check,
                                                  !.capture = capture]]
    /\ handle' = [handle EXCEPT ![t] = NoManager]
    /\ pc' = [pc EXCEPT ![t] = "ggm_lock_global"]
    /\ UNCHANGED <<xvars, dvars, res, spawned, proc, global, initialized, gmLock,
                   giLock, lockHolder, ctor>>

\* execute_env_run is called: the name and the command are resolved and the
\* arguments validated; only then is the global manager fetched
StartEnvRun(t, check, capture) ==
    /\ pc[t] = "idle"
    /\ cmd' = [cmd EXCEPT ![t] = "env_run"]
    /\ args' = [args EXCEPT ![t] = [NoArgs EXCEPT !.argcheck = check,
                                                  !.capture = capture]]
    /\ handle' = [handle EXCEPT ![t] = NoManager]
    /\ IF check # "ok"
       THEN /\ res' = [res EXCEPT ![t] = "Validation"]
            /\ pc' = [pc EXCEPT ![t] = "done"]
       ELSE /\ pc' = [pc EXCEPT ![t] = "ggm_lock_global"]
            /\ UNCHANGED res
    /\ UNCHANGED <<xvars, dvars, spawned, proc, global, initialized, gmLock,
                   giLock, lockHolder, ctor>>

\* execute_env_run after get_global_manager: its error becomes an execution
\* error, otherwise the existence check comes next
EnvRunAfterGgm(t) ==
    /\ pc[t] = "ggm_ret"
    /\ cmd[t] = "env_run"
    /\ IF res[t] # "Ok"
       THEN /\ res' = [res EXCEPT ![t] = "Execution"]
            /\ pc' = [pc EXCEPT ![t] = "done"]
       ELSE /\ res' = [res EXCEPT ![t] = "none"]
            /\ pc' = [pc EXCEPT ![t] = "run_check"]
    /\ ClearCtor(t)
    /\ UNCHANGED <<xvars, dvars, cmd, args, spawned, proc, handle, global,
                   initialized, gmLock, giLock, lockHolder>>

\* execute_env_run: environment_exists spawns `env list --json`
RunCheckSpawn(t, spawnOk) ==
    /\ pc[t] = "run_check"
    /\ IF spawnOk
       THEN /\ proc' = [proc EXCEPT ![t] = "env_list"]
            /\ spawned' = [spawned EXCEPT ![t] = @ \cup {"env_list"}]
            /\ pc' = [pc EXCEPT ![t] = "run_check_wait"]
            /\ UNCHANGED <<res, args>>
       ELSE /\ res' = [res EXCEPT ![t] = "Execution"]
            /\ args' = [args EXCEPT ![t].exists = "Execution"]
            /\ pc' = [pc EXCEPT ![t] = "done"]
            /\ UNCHANGED <<proc, spawned>>
    /\ UNCHANGED <<xvars, dvars, cmd, handle, global, initialized, gmLock,
                   giLock, lockHolder, ctor>>

\* execute_env_run that runs the command whatever the existence check says
RunCheckDoneIgnored(t, r) ==
    /\ pc[t] = "run_check_wait"
    /\ proc' = [proc EXCEPT ![t] = "none"]
    /\ args' = [args EXCEPT ![t].exists = r]
    /\ IF r \in {"true", "false"}
       THEN /\ pc' = [pc EXCEPT ![t] = "rx_spawn"]
            /\ UNCHANGED res
       ELSE /\ res' = [res EXCEPT ![t] = r]
            /\ pc' = [pc EXCEPT ![t] = "done"]
    /\ UNCHANGED <<xvars, dvars, cmd, spawned, handle, global, initialized,
                   gmLock, giLock, lockHolder, ctor>>

\* execute_env_run: the existence check returns; an absent environment is an
\* execution error, a failed check is returned as it is
RunCheckDone(t, r) ==
    /\ pc[t] = "run_check_wait"
    /\ proc' = [proc EXCEPT ![t] = "none"]
    /\ args' = [args EXCEPT ![t].exists = r]
    /\ IF r = "true"
       THEN /\ pc' = [pc EXCEPT ![t] = "rx_spawn"]
            /\ UNCHANGED res
       ELSE /\ res' = [res EXCEPT ![t] = IF r = "false" THEN "Execution" ELSE r]
            /\ pc' = [pc EXCEPT ![t] = "done"]
    /\ UNCHANGED <<xvars, dvars, cmd, spawned, handle, global, initialized,
                   gmLock, giLock, lockHolder, ctor>>

\* A task calls run_in_environment_extended on the manager it holds
CallRunInEnvironmentExtended(t, capture) ==
    /\ pc[t] = "idle"
    /\ handle[t] # NoManager
    /\ args' = [args EXCEPT ![t] = [NoArgs EXCEPT !.op = "run", !.capture = capture]]
    /\ pc' = [pc EXCEPT ![t] = "rx_spawn"]
    /\ UNCHANGED <<xvars, dvars, cmd, res, spawned, proc, handle, global,
                   initialized, gmLock, giLock, lockHolder, ctor>>

\* run_in_environment_extended: spawn `run -n <env> bash -c <command>`, with
\* output() when capturing and status() when not; it checks nothing first
RxSpawn(t, spawnOk) ==
    /\ pc[t] = "rx_spawn"
    /\ IF spawnOk
       THEN /\ proc' = [proc EXCEPT ![t] = "run"]
            /\ spawned' = [spawned EXCEPT ![t] = @ \cup {"run"}]
            /\ pc' = [pc EXCEPT ![t] = "rx_wait"]
            /\ UNCHANGED res
       ELSE /\ OpReturns(t, "Execution", "rx_ret")
            /\ UNCHANGED <<proc, spawned>>
    /\ UNCHANGED <<xvars, dvars, cmd, args, handle, global, initialized, gmLock,
                   giLock, lockHolder, ctor>>

\* run_in_environment_extended that takes exit code 141 for success
RxFinishConverts(t, exit) ==
    /\ pc[t] = "rx_wait"
    /\ proc' = [proc EXCEPT ![t] = "none"]
    /\ args' = [args EXCEPT ![t].code = {exit}]
    /\ OpReturns(t, IF exit \in {0, 141} THEN "Ok" ELSE "Execution", "rx_ret")
    /\ UNCHANGED <<xvars, dvars, cmd, spawned, handle, global, initialized,
                   gmLock, giLock, lockHolder, ctor>>

\* run_in_environment_extended: the subprocess ends; every non-zero exit is
\* an execution error whose message carries the exit code
RxFinish(t, exit) ==
    /\ pc[t] = "rx_wait"
    /\ proc' = [proc EXCEPT ![t] = "none"]
    /\ args' = [args EXCEPT ![t].code = {exit}]
    /\ OpReturns(t, IF exit = 0 THEN "Ok" ELSE "Execution", "rx_ret")
    /\ UNCHANGED <<xvars, dvars, cmd, spawned, handle, global, initialized,
                   gmLock, giLock, lockHolder, ctor>>

\* execute_env_run that returns the run operation's error unchanged
EnvRunReturnStrict(t) ==
    /\ pc[t] = "rx_ret"
    /\ cmd[t] = "env_run"
    /\ pc' = [pc EXCEPT ![t] = "done"]
    /\ UNCHANGED <<xvars, dvars, cmd, args, res, spawned, proc, handle, global,
                   initialized, gmLock, giLock, lockHolder, ctor>>

\* The exit code of a broken pipe (128 + SIGPIPE)
BrokenPipe == 141

\* execute_env_run after run_in_environment_extended: an error whose message
\* contains "exit code Some(141)" is turned into success
EnvRunReturn(t) ==
    /\ pc[t] = "rx_ret"
    /\ cmd[t] = "env_run"
    /\ res' = [res EXCEPT ![t] =
          IF res[t] = "Execution" /\ args[t].code = {BrokenPipe} THEN "Ok" ELSE @]
    /\ pc' = [pc EXCEPT ![t] = "done"]
    /\ UNCHANGED <<xvars, dvars, cmd, args, spawned, proc, handle, global,
                   initialized, gmLock, giLock, lockHolder, ctor>>

----------------------------------------------------------------------------
(***************************************************************************)
(* environment_exists in full, and the validate command (env.rs)           *)
(***************************************************************************)

\* How a spawned `env list --json` can end: its exit code, whether its
\* output parses as {"envs": [...]}, whether a path in it ends with the name
ListingOutcomes ==
    {[exit |-> e, parses |-> FALSE, listed |-> FALSE] : e \in ExitCodes} \cup
    {[exit |-> 0, parses |-> TRUE, listed |-> l] : l \in BOOLEAN}

\* environment_exists once the listing has ended
EnvironmentExists(o) ==
    IF o.exit # 0 THEN "Execution"
    ELSE IF ~o.parses THEN "Validation"
    ELSE IF o.listed THEN "true" ELSE "false"

\* A non-zero exit other than the broken pipe's
FailedExit(o) == o.exit \notin {0, BrokenPipe}

\* The names execute_env_validate checks when asked for all environments
NumValidateNames == 3

\* execute_env_validate is called for all environments or for one name,
\* with or without JSON output
StartEnvValidate(t, all, json) ==
    StartCommand(t, "env_validate",
                 [NoArgs EXCEPT !.all = all, !.json = json,
                                !.todo = IF all THEN NumValidateNames ELSE 0])

\* execute_env_validate after get_global_manager
EvAfterGgm(t) ==
    /\ pc[t] = "ggm_ret"
    /\ cmd[t] = "env_validate"
    /\ IF res[t] # "Ok"
       THEN /\ res' = [res EXCEPT ![t] = "Execution"]
            /\ pc' = [pc EXCEPT ![t] = "done"]
       ELSE /\ res' = [res EXCEPT ![t] = "none"]
            /\ pc' = [pc EXCEPT ![t] = "ev_check"]
    /\ ClearCtor(t)
    /\ UNCHANGED <<xvars, dvars, cmd, args, spawned, proc, handle, global,
                   initialized, gmLock, giLock, lockHolder>>

\* execute_env_validate receives r from environment_exists; failed tells
\* whether the listing exited with a failure code.  With --json the result
\* goes through unwrap_or(false) and the command returns Ok; without it any
\* result but Ok(true) makes the command fail with a validation error; for a
\* single name an error of the check is returned as it is.
EvCollect(t, r, failed) ==
    LET valid == args[t].valid /\ r = "true"
        last  == args[t].todo <= 1
    IN  /\ args' = [args EXCEPT ![t].valid = valid,
                                ![t].bad = @ \/ failed,
                                ![t].exists = r,
                                ![t].todo = IF args[t].all THEN @ - 1 ELSE @]
        /\ IF ~args[t].all
           THEN /\ res' = [res EXCEPT ![t] =
                      IF r = "true" THEN "Ok"
                      ELSE IF r = "false" THEN "Validation" ELSE r]
                /\ pc' = [pc EXCEPT ![t] = "done"]
           ELSE IF ~last
                THEN /\ pc' = [pc EXCEPT ![t] = "ev_check"]
                     /\ UNCHANGED res
                ELSE /\ res' = [res EXCEPT ![t] =
                           IF args[t].json \/ valid THEN "Ok" ELSE "Validation"]
                     /\ pc' = [pc EXCEPT ![t] = "done"]

\* execute_env_validate: environment_exists spawns `env list --json`
EvCheckSpawn(t, spawnOk) ==
    /\ pc[t] = "ev_check"
    /\ IF spawnOk
       THEN /\ proc' = [proc EXCEPT ![t] = "env_list"]
            /\ spawned' = [spawned EXCEPT ![t] = @ \cup {"env_list"}]
            /\ pc' = [pc EXCEPT ![t] = "ev_wait"]
            /\ UNCHANGED <<res, args>>
       ELSE /\ EvCollect(t, "Execution", FALSE)
            /\ UNCHANGED <<proc, spawned>>
    /\ UNCHANGED <<xvars, dvars, cmd, handle, global, initialized, gmLock,
                   giLock, lockHolder, ctor>>

\* execute_env_validate: the listing ends
EvCheckDone(t, o) ==
    /\ pc[t] = "ev_wait"
    /\ proc' = [proc EXCEPT ![t] = "none"]
    /\ EvCollect(t, EnvironmentExists(o), FailedExit(o))
    /\ UNCHANGED <<xvars, dvars, cmd, spawned, handle, global, initialized,
                   gmLock, giLock, lockHolder, ctor>>

\* execute_env_list is called
StartEnvList(t, json) ==
    StartCommand(t, "env_list", [NoArgs EXCEPT !.json = json])

\* list_all_conda_environments after get_global_manager, and
\* get_all_conda_environments: no manager is an execution error, the None
\* kind an empty list, otherwise `<command> env list` is spawned
ElAfterGgm(t, spawnOk) ==
    /\ pc[t] = "ggm_ret"
    /\ cmd[t] = "env_list"
    /\ IF res[t] # "Ok"
       THEN /\ res' = [res EXCEPT ![t] = "Execution"]
            /\ pc' = [pc EXCEPT ![t] = "done"]
            /\ UNCHANGED <<proc, spawned>>
       ELSE IF handle[t].pm_type = "None"
            THEN /\ res' = [res EXCEPT ![t] = "Ok"]
                 /\ pc' = [pc EXCEPT ![t] = "done"]
                 /\ UNCHANGED <<proc, spawned>>
            ELSE IF spawnOk
                 THEN /\ proc' = [proc EXCEPT ![t] = "env_list_plain"]
                      /\ spawned' = [spawned EXCEPT ![t] =
                                         @ \cup {"env_list_plain"}]
                      /\ res' = [res EXCEPT ![t] = "none"]
                      /\ pc' = [pc EXCEPT ![t] = "el_wait"]
                 ELSE /\ res' = [res EXCEPT ![t] = "Execution"]
                      /\ pc' = [pc EXCEPT ![t] = "done"]
                      /\ UNCHANGED <<proc, spawned>>
    /\ ClearCtor(t)
    /\ UNCHANGED <<xvars, dvars, cmd, args, handle, global, initialized,
                   gmLock, giLock, lockHolder>>

\* get_all_conda_environments: the listing ends; a failed exit is an
\* execution error, otherwise the parsed output is printed
ElFinish(t, exit) ==
    /\ pc[t] = "el_wait"
    /\ proc' = [proc EXCEPT ![t] = "none"]
    /\ res' = [res EXCEPT ![t] = IF exit = 0 THEN "Ok" ELSE "Execution"]
    /\ pc' = [pc EXCEPT ![t] = "done"]
    /\ UNCHANGED <<xvars, dvars, cmd, args, spawned, handle, global,
                   initialized, gmLock, giLock, lockHolder, ctor>>

\* The host's PATH and LD_LIBRARY_PATH: unset or empty, or one entry
HostEnvs == [PATH : {<<>>, <<"/usr/bin">>},
             LD_LIBRARY_PATH : {<<>>, <<"/usr/lib">>}]

\* build_env_vars: the backend's lib directory before LD_LIBRARY_PATH, the
\* backend's directory before PATH
BuildEnvVars(e) ==
    [PATH |-> <<"pm_dir">> \o e.PATH,
     LD_LIBRARY_PATH |-> <<"pm_dir/lib">> \o e.LD_LIBRARY_PATH]

\* The subprocesses the manager starts
ManagerSpawns == {"version_check", "env_create", "env_list", "env_list_plain",
                  "run", "env_remove", "install"}

\* How the manager starts subprocess k on a host with variables e: the
\* program named and the variables the child gets
SpawnedCommand(k, e) ==
    IF k = "env_list_plain"
    THEN [program |-> "command_name", env |-> e]
    ELSE [program |-> "pm_path", env |-> BuildEnvVars(e)]

\* The variables a run can name, and the values it gives them
EnvKeys == {"PATH", "LD_LIBRARY_PATH", "FOO"}
EnvPairValues == {<<"/my/bin">>, <<"v">>}

\* A caller-supplied string: KEY=VALUE, or one without '='
EnvPairs == [eq : BOOLEAN, key : EnvKeys, value : EnvPairValues]
MaxPairs == 2
EnvPairSeqs == UNION {[1..n -> EnvPairs] : n \in 0..MaxPairs}

\* The variables the process itself runs with: the host's, FOO unset
ProcessEnv(e) ==
    [k \in EnvKeys |-> IF k = "FOO" THEN <<>> ELSE e[k]]

\* cmd.env(key, value) for each pair that split_once('=') splits, in order
RECURSIVE ApplyPairs(_, _)
ApplyPairs(env, pairs) ==
    IF pairs = <<>> THEN env
    ELSE LET p == Head(pairs)
         IN  ApplyPairs(IF p.eq THEN [env EXCEPT ![p.key] = p.value] ELSE env,
                        Tail(pairs))

\* apply_env_to_command: cmd.env(key, value) for each of build_env_vars'
\* variables, which are computed from the process's own
ApplyEnvToCommand(env, e) ==
    [k \in EnvKeys |-> IF k \in DOMAIN BuildEnvVars(e) THEN BuildEnvVars(e)[k]
                                                       ELSE env[k]]

\* run_in_environment_extended: the variables its subprocess sees: the
\* process's, then the caller's pairs, then the manager's
RunChildEnv(pairs, e) ==
    ApplyEnvToCommand(ApplyPairs(ProcessEnv(e), pairs), e)

\* a call of run_in_environment_extended with the pairs, on a host with e
PureRunChildEnv(pairs, e) ==
    /\ pcall = NoPCall
    /\ pcall' = [op |-> "run_env", arg |-> <<pairs, e>>,
                 out |-> RunChildEnv(pairs, e)]
    /\ UNCHANGED <<dvars, mvars, registry, lcall, inst>>

----------------------------------------------------------------------------
(***************************************************************************)
(* parse_conda_env_list                                                    *)
(***************************************************************************)

\* The tokens of a line of `env list` output: the active marker, a name,
\* a path, and, in first position, one that begins with '#'
Words == {"*", "base", "/opt/pm"}
Tokens == Words \cup {"#"}

\* split_whitespace of a line: no token, one, two or three
TokenSeqs ==
    {<<>>} \cup {<<a>> : a \in Tokens}
           \cup {<<a, b>> : a \in Tokens, b \in Words}
           \cup {<<a, b, c>> : a \in Tokens, b \in Words, c \in Words}

\* A line: its tokens, and whether whitespace precedes the first of them
\* (which matters only to starts_with('#'))
Lines ==
    {[indent |-> FALSE, tokens |-> ts] : ts \in TokenSeqs} \cup
    {[indent |-> TRUE, tokens |-> ts] :
        ts \in {x \in TokenSeqs : x # <<>> /\ x[1] = "#"}}

MaxLines == 2
Outputs == UNION {[1..k -> Lines] : k \in 0..MaxLines}

\* line.starts_with('#') || line.trim().is_empty()
Skipped(l) ==
    \/ l.tokens = <<>>
    \/ ~l.indent /\ l.tokens[1] = "#"

\* The loop body that takes the prefix from the second field always
ParseLineSecondField(l) ==
    IF Skipped(l) \/ Len(l.tokens) < 2 THEN <<>>
    ELSE <<[name |-> l.tokens[1], prefix |-> l.tokens[2],
            is_active |-> l.tokens[2] = "*"]>>

\* The loop body: the entries one line contributes
ParseLine(l) ==
    IF Skipped(l) THEN <<>>
    ELSE IF Len(l.tokens) >= 2
         THEN LET is_active == l.tokens[2] = "*"
              IN  IF is_active
                  THEN IF Len(l.tokens) >= 3
                       THEN <<[name |-> l.tokens[1], prefix |-> l.tokens[3],
                               is_active |-> TRUE]>>
                       ELSE <<>>
                  ELSE <<[name |-> l.tokens[1], prefix |-> l.tokens[2],
                          is_active |-> FALSE]>>
         ELSE <<>>

RECURSIVE ParseCondaEnvList(_)
ParseCondaEnvList(ls) ==
    IF ls = <<>> THEN <<>>
    ELSE ParseLine(Head(ls)) \o ParseCondaEnvList(Tail(ls))

\* parse_conda_env_list is called on an output
PureParseCondaEnvList(ls) ==
    /\ pcall = NoPCall
    /\ pcall' = [op |-> "parse_conda_env_list", arg |-> ls,
                 out |-> ParseCondaEnvList(ls)]
    /\ UNCHANGED <<dvars, mvars, rvars, inst>>

----------------------------------------------------------------------------
(***************************************************************************)
(* install_micromamba                                                      *)
(***************************************************************************)

\* The download sources tried in order: the official one, GitHub releases
NumSources == 2

\* Invocations of the installer in one behaviour
MaxInstalls == 2

\* The invocation returns r
InstallReturns(r) == inst' = [inst EXCEPT !.res = r, !.stage = "done"]

\* install_micromamba that downloads whether or not the target exists
InstallBeginAlways ==
    /\ inst.stage = "idle"
    /\ IF ~inst.supported THEN InstallReturns("Validation")
       ELSE IF ~inst.dirKnown THEN InstallReturns("FileOperation")
       ELSE inst' = [inst EXCEPT !.start = inst.target, !.stage = "mkdir"]
    /\ UNCHANGED <<dvars, mvars, pcall, rvars>>

\* install_micromamba is called: the platform is matched, the installation
\* directory determined, and binary_path (the same path) tested: if it
\* exists the whole download is skipped
InstallBegin ==
    /\ inst.stage = "idle"
    /\ IF ~inst.supported THEN InstallReturns("Validation")
       ELSE IF ~inst.dirKnown THEN InstallReturns("FileOperation")
       ELSE IF inst.target # "absent"
            THEN inst' = [inst EXCEPT !.start = inst.target, !.res = "Ok",
                                      !.stage = "done"]
            ELSE inst' = [inst EXCEPT !.start = inst.target, !.stage = "mkdir"]
    /\ UNCHANGED <<dvars, mvars, pcall, rvars>>

\* fs::create_dir_all(&install_dir): a directory now stands at binary_path
InstallMkdir(ok) ==
    /\ inst.stage = "mkdir"
    /\ IF ok
       THEN inst' = [inst EXCEPT !.target = IF @ = "absent" THEN "dir" ELSE @,
                                 !.wrote = TRUE, !.stage = "client"]
       ELSE InstallReturns("FileOperation")
    /\ UNCHANGED <<dvars, mvars, pcall, rvars>>

\* The HTTP client is built
InstallClient(ok) ==
    /\ inst.stage = "client"
    /\ IF ok
       THEN inst' = [inst EXCEPT !.stage = "download", !.source = 1]
       ELSE InstallReturns("Network")
    /\ UNCHANGED <<dvars, mvars, pcall, rvars>>

\* What a request to one source can lead to: no connection, an HTTP error
\* status, an unreadable body, an HTML page, an archive whose temporary
\* file cannot be written, for which tar cannot be run, which tar fails to
\* extract, which extracts without or with bin/micromamba, or a bare binary
DownloadOutcomes ==
    {"connect_failed", "http_error", "read_failed", "html", "temp_failed",
     "tar_unavailable", "tar_failed", "archive_flat", "archive_nested",
     "binary"}

\* The loop over the sources that never breaks
InstallDownloadNoBreak(o, metaOk) ==
    /\ inst.stage = "download"
    /\ LET placed ==
             \/ o \in {"archive_flat", "archive_nested"}
             \/ o = "binary" /\ inst.target \in {"absent", "file"}
           after ==
             IF o = "archive_nested" THEN "dir_nested"
             ELSE IF o = "binary" /\ placed THEN "file"
             ELSE inst.target
           break == FALSE
       IN  inst' = [inst EXCEPT
              !.requests = @ + 1,
              !.contacted = Append(@, [source |-> inst.source,
                                       placed |-> inst.placed]),
              !.meta_failed = @ \/ (placed /\ ~metaOk),
              !.target = after,
              !.placed = @ \/ placed,
              !.last_error = IF placed THEN @ ELSE o,
              !.extracted = @ \/ o \in {"tar_failed", "archive_flat",
                                         "archive_nested"},
              !.stage = IF break \/ inst.source = NumSources
                        THEN "nested" ELSE "download",
              !.source = IF break \/ inst.source = NumSources
                         THEN @ ELSE @ + 1]
    /\ UNCHANGED <<dvars, mvars, pcall, rvars>>

\* One turn of the loop over the sources: GET the URL and handle the body.
\* A bare binary is written with File::create(&binary_path), which fails on
\* the directory create_dir_all made there, or replaces a file.  After a
\* placement the path's metadata is read to set the mode: if that fails the
\* loop continues with the next source (last_error is left as it was),
\* otherwise it breaks.
InstallDownload(o, metaOk) ==
    /\ inst.stage = "download"
    /\ LET placed ==
             \/ o \in {"archive_flat", "archive_nested"}
             \/ o = "binary" /\ inst.target \in {"absent", "file"}
           after ==
             IF o = "archive_nested" THEN "dir_nested"
             ELSE IF o = "binary" /\ placed THEN "file"
             ELSE inst.target
           break == placed /\ metaOk
       IN  inst' = [inst EXCEPT
              !.requests = @ + 1,
              !.contacted = Append(@, [source |-> inst.source,
                                       placed |-> inst.placed]),
              !.meta_failed = @ \/ (placed /\ ~metaOk),
              !.target = after,
              !.placed = @ \/ placed,
              !.last_error = IF placed THEN @ ELSE o,
              !.extracted = @ \/ o \in {"tar_failed", "archive_flat",
                                         "archive_nested"},
              !.stage = IF break \/ inst.source = NumSources
                        THEN "nested" ELSE "download",
              !.source = IF break \/ inst.source = NumSources
                         THEN @ ELSE @ + 1]
    /\ UNCHANGED <<dvars, mvars, pcall, rvars>>

\* After the loop: a directory holding bin/micromamba is replaced by that
\* binary through a copy, a remove_dir_all and a rename, each of which can
\* fail with a warning only
InstallNested(copyOk, rmOk, renameOk) ==
    /\ inst.stage = "nested"
    /\ inst' = [inst EXCEPT
          !.target = IF inst.target = "dir_nested" /\ copyOk /\ rmOk
                     THEN (IF renameOk THEN "file" ELSE "absent")
                     ELSE @,
          !.stage = "check"]
    /\ UNCHANGED <<dvars, mvars, pcall, rvars>>

\* The last test: no binary_path is a network error, else Ok(binary_path)
InstallEnd ==
    /\ inst.stage = "check"
    /\ InstallReturns(IF inst.target = "absent" THEN "Network" ELSE "Ok")
    /\ UNCHANGED <<dvars, mvars, pcall, rvars>>

\* The installer is invoked again, on what the last invocation left
InstallAgain ==
    /\ inst.stage = "done"
    /\ inst.runs + 1 < MaxInstalls
    /\ inst' = [NoInstall(inst.target) EXCEPT
          !.supported = inst.supported,
          !.dirKnown = inst.dirKnown,
          !.runs = inst.runs + 1,
          !.prev = [res |-> inst.res, requests |-> inst.requests]]
    /\ UNCHANGED <<dvars, mvars, pcall, rvars>>

----------------------------------------------------------------------------
(***************************************************************************)
(* list_environments on a constructed manager                              *)
(***************************************************************************)

\* The failures a construction can meet on the way
CtorFailures == {"none", "install", "read_dir", "create_dir", "copy"}

\* with_config_dir that has a file for every recognized name once the
\* templates were looked at
AutoCopyConfigTemplatesAll(exists, files, others, srcs, fail) ==
    [res |-> "Ok", present |-> EnvNames, skipped |-> FALSE]

\* auto_copy_config_templates on a directory that exists or not, holds the
\* recognized files `files` and `others` more .yaml files, with the build
\* having the templates `srcs`: the result, and the recognized files the
\* directory holds afterwards
AutoCopyConfigTemplates(exists, files, others, srcs, fail) ==
    IF exists /\ fail = "read_dir"
    THEN [res |-> "FileOperation", present |-> files, skipped |-> FALSE]
    ELSE IF exists /\ Cardinality(files) + others >= NumEnvNames
    THEN [res |-> "Ok", present |-> files, skipped |-> TRUE]
    ELSE IF fail = "create_dir"
    THEN [res |-> "FileOperation", present |-> files, skipped |-> FALSE]
    ELSE IF fail = "copy" /\ srcs \ files # {}
    THEN [res |-> "FileOperation", present |-> files, skipped |-> FALSE]
    ELSE [res |-> "Ok", present |-> files \cup srcs, skipped |-> FALSE]

\* The status initialize_environments stores from environment_exists' answer
InitialStatus(r) ==
    IF r = "true" THEN "Installed"
    ELSE IF r = "false" THEN "NotInstalled" ELSE "Error"

\* with_config_dir up to the template copy: find_or_install_micromamba, then
\* auto_copy_config_templates; a failure of either is the constructor's
WithConfigDir(exists, files, others, srcs, fail) ==
    /\ lcall = NoLCall
    /\ exists \/ (files = {} /\ others = 0)
    /\ LET c == AutoCopyConfigTemplates(exists, files, others, srcs, fail)
           d == [built |-> FALSE, files |-> files, srcs |-> srcs,
                 skipped |-> c.skipped, fail |-> fail]
       IN  IF fail = "install"
           THEN lcall' = [NoLCall EXCEPT !.op = "with_config_dir",
                                         !.dir.fail = fail,
                                         !.res = "Config"]
           ELSE lcall' = [NoLCall EXCEPT
                              !.op = "with_config_dir",
                              !.todo = c.present,
                              !.dir = d,
                              !.res = IF c.res = "Ok" THEN "none" ELSE c.res]
    /\ registry' = NoRegistry
    /\ UNCHANGED <<dvars, mvars, pcall, inst>>

\* initialize_environments' loop and the constructor's return: an entry for
\* each recognized name whose file is there, with the status its existence
\* check rs[n] gives
WcdInitialize(rs) ==
    /\ lcall.op = "with_config_dir"
    /\ lcall.res = "none"
    /\ DOMAIN rs = lcall.todo
    /\ registry' = [n \in lcall.todo |-> InitialStatus(rs[n])]
    /\ lcall' = [lcall EXCEPT !.todo = {}, !.res = "Ok", !.dir.built = TRUE]
    /\ UNCHANGED <<dvars, mvars, pcall, inst>>

\* list_environments with the status initialize_environments would store
ListedStatusAsStored(r) ==
    IF r = "true" THEN "Installed"
    ELSE IF r = "false" THEN "NotInstalled" ELSE "Error"

\* The status list_environments gives an entry from environment_exists'
\* answer
ListedStatus(r) ==
    IF r = "true" THEN "Ready"
    ELSE IF r = "false" THEN "NotInstalled" ELSE "Error"

\* list_environments is called
CallListEnvironments ==
    /\ \/ lcall.op = "none"
       \/ lcall.op = "with_config_dir" /\ lcall.res = "Ok"
    /\ lcall' = [op |-> "list_environments", before |-> registry,
                 todo |-> DOMAIN registry, out |-> <<>>, res |-> "none",
                 dir |-> [NoDir EXCEPT !.built = lcall.dir.built],
                 answers |-> NoRegistry]
    /\ UNCHANGED <<dvars, mvars, pcall, registry, inst>>

\* list_environments' loop body for entry n, taken in the map's iteration
\* order, which is arbitrary: the existence check answers r and a copy of
\* the entry with the new status is pushed
ListCheck(n, r) ==
    /\ lcall.op = "list_environments"
    /\ lcall.res = "none"
    /\ n \in lcall.todo
    /\ lcall' = [lcall EXCEPT
          !.todo = @ \ {n},
          !.out = Append(@, [name |-> n, status |-> ListedStatus(r),
                             check |-> r])]
    /\ UNCHANGED <<dvars, mvars, pcall, registry, inst>>

\* list_environments returns Ok(envs)
ListReturn ==
    /\ lcall.op = "list_environments"
    /\ lcall.res = "none"
    /\ lcall.todo = {}
    /\ lcall' = [lcall EXCEPT !.res = "Ok"]
    /\ UNCHANGED <<dvars, mvars, pcall, registry, inst>>

\* The status update_environment_statuses leaves an entry with, from the
\* status it had and environment_exists' answer
UpdatedStatus(status, r) ==
    IF r = "true" THEN "Ready"
    ELSE IF status = "Ready" THEN "NotInstalled" ELSE status

\* update_environment_statuses is called: the keys are collected
CallUpdateEnvironmentStatuses ==
    /\ \/ lcall.op = "none"
       \/ lcall.op = "with_config_dir" /\ lcall.res = "Ok"
       \/ lcall.op = "update_environment_statuses" /\ lcall.res # "none"
    /\ lcall' = [op |-> "update_environment_statuses", before |-> registry,
                 todo |-> DOMAIN registry, out |-> <<>>, res |-> "none",
                 dir |-> [NoDir EXCEPT !.built = lcall.dir.built],
                 answers |-> NoRegistry]
    /\ UNCHANGED <<dvars, mvars, pcall, registry, inst>>

\* update_environment_statuses that drops the entry of an environment
\* that does not exist
UpdateCheckDropsMissing(n, r) ==
    /\ lcall.op = "update_environment_statuses"
    /\ lcall.res = "none"
    /\ n \in lcall.todo
    /\ registry' = [m \in DOMAIN registry \ (IF r = "false" THEN {n} ELSE {}) |->
                       IF m = n THEN UpdatedStatus(registry[m], r)
                       ELSE registry[m]]
    /\ lcall' = [lcall EXCEPT !.todo = @ \ {n}]
    /\ UNCHANGED <<dvars, mvars, pcall, inst>>

\* update_environment_statuses' loop body for key n: the existence check
\* answers r; an error is returned at once, an answer sets the status
UpdateCheck(n, r) ==
    /\ lcall.op = "update_environment_statuses"
    /\ lcall.res = "none"
    /\ n \in lcall.todo
    /\ IF r \in {"true", "false"}
       THEN /\ registry' = [registry EXCEPT ![n] = UpdatedStatus(@, r)]
            /\ lcall' = [lcall EXCEPT
                  !.todo = @ \ {n},
                  !.answers = [m \in DOMAIN @ \cup {n} |->
                                  IF m = n THEN r ELSE @[m]]]
       ELSE /\ lcall' = [lcall EXCEPT !.res = r]
            /\ UNCHANGED registry
    /\ UNCHANGED <<dvars, mvars, pcall, inst>>

\* update_environment_statuses returns Ok(())
UpdateReturn ==
    /\ lcall.op = "update_environment_statuses"
    /\ lcall.res = "none"
    /\ lcall.todo = {}
    /\ lcall' = [lcall EXCEPT !.res = "Ok"]
    /\ UNCHANGED <<dvars, mvars, pcall, registry, inst>>

----------------------------------------------------------------------------
(***************************************************************************)
(* The specifications                                                      *)
(***************************************************************************)

Init == DInit /\ MInit /\ XInit

\* The manager's operations, step by step, as task t runs them
OpStep(t) ==
    \/ GgmLockGlobal(t)
    \/ GgmLockInit(t)
    \/ pc[t] = "new_detect" /\ \E h \in NewHosts : NewDetect(t, h)
    \/ pc[t] = "new_path" /\ \E check \in PathChecks : NewPath(t, check)
    \/ pc[t] = "new_init" /\ \E copyOk \in BOOLEAN, n \in 0..NumEnvNames :
                                NewInit(t, copyOk, n)
    \/ NewEnvSpawn(t)
    \/ NewEnvDone(t)
    \/ NewFinish(t)
    \/ GgmClone(t)
    \/ CeAcquire(t)
    \/ \E spawnOk \in BOOLEAN : CeValidate(t, spawnOk)
    \/ \E exit \in ExitCodes : CeFinish(t, exit)
    \/ IpAcquire(t)
    \/ \E spawnOk \in BOOLEAN : IpCheckSpawn(t, spawnOk)
    \/ \E r \in ExistsResults : IpCheckDone(t, r)
    \/ \E spawnOk \in BOOLEAN : IpSpawn(t, spawnOk)
    \/ \E exit \in ExitCodes : IpFinish(t, exit)
    \/ \E spawnOk \in BOOLEAN : RmSpawn(t, spawnOk)
    \/ \E exit \in ExitCodes : RmFinish(t, exit)
    \/ Return(t)

\* Spec: NTasks tasks call the manager's API concurrently
Next ==
    \E t \in Tasks :
        \/ CallGetGlobalManager(t)
        \/ \E dry \in BOOLEAN, y \in YamlKinds : CallCreateEnvironment(t, dry, y)
        \/ CallInstallPackages(t)
        \/ CallRemoveEnvironment(t)
        \/ \E u \in Tasks : ShareManager(t, u)
        \/ \E u \in Tasks : CloneFrom(t, u)
        \/ OpStep(t)

Spec == Init /\ [][Next]_vars

\* The manager every task holds a clone of once get_global_manager has
\* answered each of them: the clones share the creation lock
BuiltManager == [inst |-> 1, pm_type |-> "Conda", pm_path |-> "PATH/conda",
                 lock |-> 1]

FairInit ==
    /\ DInit /\ XInit
    /\ pc = [t \in Tasks |-> "idle"]
    /\ cmd = [t \in Tasks |-> "none"]
    /\ args = [t \in Tasks |-> NoArgs]
    /\ res = [t \in Tasks |-> "none"]
    /\ spawned = [t \in Tasks |-> {}]
    /\ proc = [t \in Tasks |-> "none"]
    /\ handle = [t \in Tasks |-> [BuiltManager EXCEPT !.inst = t + 1]]
    /\ global = BuiltManager
    /\ initialized = TRUE
    /\ gmLock = 0
    /\ giLock = 0
    /\ lockHolder = [l \in LockIds |-> 0]
    /\ ctor = NoCtor

\* The steps of create_environment and install_packages after the lock
LockedStep(t) ==
    \/ \E spawnOk \in BOOLEAN : CeValidate(t, spawnOk)
    \/ \E exit \in ExitCodes : CeFinish(t, exit)
    \/ \E spawnOk \in BOOLEAN : IpCheckSpawn(t, spawnOk)
    \/ \E r \in ExistsResults : IpCheckDone(t, r)
    \/ \E spawnOk \in BOOLEAN : IpSpawn(t, spawnOk)
    \/ \E exit \in ExitCodes : IpFinish(t, exit)
    \/ Return(t)

FairNext ==
    \E t \in Tasks :
        \/ \E dry \in BOOLEAN, y \in YamlKinds : CallCreateEnvironment(t, dry, y)
        \/ CallInstallPackages(t)
        \/ CeAcquire(t)
        \/ IpAcquire(t)
        \/ LockedStep(t)

\* SpecFair: tasks that hold the manager call create_environment and
\* install_packages under a fair scheduler. A task that can take a step of
\* its operation takes it (subprocesses terminate, futures are polled), and
\* tokio's Mutex hands the lock to waiters in FIFO order, so a waiter that
\* finds the lock free again and again gets it
SpecFair ==
    /\ FairInit
    /\ [][FairNext]_vars
    /\ \A t \in Tasks : WF_vars(LockedStep(t))
    /\ \A t \in Tasks : SF_vars(CeAcquire(t))
    /\ \A t \in Tasks : SF_vars(IpAcquire(t))

\* The task that runs the commands in SpecCommands
Main == CHOOSE t \in Tasks : \A u \in Tasks : t <= u

\* SpecCommands: one task runs command handlers, and API calls, one at a time
CommandNext ==
    \/ \E dry \in BOOLEAN, sel \in Selections, n \in 1..MaxTargets :
          StartEnvCreate(Main, dry, sel, n)
    \/ EcAfterGgm(Main)
    \/ \E y \in YamlKinds, cwdOk \in BOOLEAN : EcLoop(Main, y, cwdOk)
    \/ EcCollect(Main)
    \/ \E pk \in {"some", "empty"} : StartEnvInstall(Main, pk)
    \/ EiAfterGgm(Main)
    \/ EiReturn(Main)
    \/ StartEnvRemove(Main)
    \/ ErAfterGgm(Main)
    \/ ErReturn(Main)
    \/ CallGetGlobalManager(Main)
    \/ \E h \in MicromambaHosts : CallWithConfigDir(Main, h)
    \/ \E r \in InstallResults : NewInstallDone(Main, r)
    \/ WithConfigDirFinish(Main)
    \/ \E dry \in BOOLEAN, y \in YamlKinds : CallCreateEnvironment(Main, dry, y)
    \/ \E y \in YamlKinds : CallValidateYaml(Main, y)
    \/ \E check \in RunArgChecks, capture \in BOOLEAN :
          StartEnvRun(Main, check, capture)
    \/ EnvRunAfterGgm(Main)
    \/ \E spawnOk \in BOOLEAN : RunCheckSpawn(Main, spawnOk)
    \/ \E r \in ExistsResults : RunCheckDone(Main, r)
    \/ \E capture \in BOOLEAN : CallRunInEnvironmentExtended(Main, capture)
    \/ \E spawnOk \in BOOLEAN : RxSpawn(Main, spawnOk)
    \/ \E exit \in ExitCodes : RxFinish(Main, exit)
    \/ EnvRunReturn(Main)
    \/ \E all \in BOOLEAN, json \in BOOLEAN : StartEnvValidate(Main, all, json)
    \/ EvAfterGgm(Main)
    \/ \E spawnOk \in BOOLEAN : EvCheckSpawn(Main, spawnOk)
    \/ \E o \in ListingOutcomes : EvCheckDone(Main, o)
    \/ \E json \in BOOLEAN : StartEnvList(Main, json)
    \/ \E spawnOk \in BOOLEAN : ElAfterGgm(Main, spawnOk)
    \/ \E exit \in ExitCodes : ElFinish(Main, exit)
    \/ OpStep(Main)

SpecCommands == Init /\ [][CommandNext]_vars

DetectorInit ==
    det = NewDetector /\ dhost \in Hosts /\ dcall = NoCall /\ MInit /\ XInit

DetectorNext ==
    \/ DetNew
    \/ \E o \in Orders : DetWithOrder(o)
    \/ DetDetect
    \/ \E pm \in PackageManager : DetDetectSpecific(pm)
    \/ \E ev \in EnvValues : DetOverride(ev)
    \/ \E h \in Hosts : HostChange(h)

SpecDetector == DetectorInit /\ [][DetectorNext]_vars

\* SpecPure: functions of their arguments, called on every bounded input
PureNext ==
    \/ pcall = NoPCall /\ \E f \in YamlFiles : PureValidateYaml(f)
    \/ pcall = NoPCall /\ \E ls \in Outputs : PureParseCondaEnvList(ls)
    \/ pcall = NoPCall /\ \E pm \in PackageManager, e \in EnvStrings :
                              PureRunSyntax(pm, e)
    \/ pcall = NoPCall /\ \E d \in Detectors, e \in EnvStrings :
                              PureGetRunCommand(d, e)
    \/ pcall = NoPCall /\ \E pairs \in EnvPairSeqs, e \in HostEnvs :
                              PureRunChildEnv(pairs, e)

SpecPure == Init /\ [][PureNext]_vars

\* SpecRegistry: calls on a manager constructed with some registry
RegistryInit ==
    /\ DInit /\ MInit
    /\ pcall = NoPCall
    /\ registry \in Registries
    /\ lcall = NoLCall
    /\ inst = NoInstall("absent")

RegistryNext ==
    \/ lcall = NoLCall /\
          \E exists \in BOOLEAN, files \in SUBSET EnvNames,
             others \in 0..NumEnvNames, srcs \in SUBSET EnvNames,
             fail \in CtorFailures :
                WithConfigDir(exists, files, others, srcs, fail)
    \/ lcall.op = "with_config_dir" /\ lcall.res = "none" /\
          \E rs \in [lcall.todo -> ExistsResults] : WcdInitialize(rs)
    \/ CallListEnvironments
    \/ \E n \in EnvNames, r \in ExistsResults : ListCheck(n, r)
    \/ ListReturn
    \/ CallUpdateEnvironmentStatuses
    \/ \E n \in EnvNames, r \in ExistsResults : UpdateCheck(n, r)
    \/ UpdateReturn

SpecRegistry == RegistryInit /\ [][RegistryNext]_vars

\* SpecInstaller: the installer invoked repeatedly on one host
InstallerInit ==
    /\ DInit /\ MInit
    /\ pcall = NoPCall
    /\ registry = NoRegistry
    /\ lcall = NoLCall
    /\ inst \in {[NoInstall(t) EXCEPT !.supported = s, !.dirKnown = d] :
                    t \in TargetStates, s \in BOOLEAN, d \in BOOLEAN}

InstallerNext ==
    \/ InstallBegin
    \/ \E ok \in BOOLEAN : InstallMkdir(ok)
    \/ \E ok \in BOOLEAN : InstallClient(ok)
    \/ \E o \in DownloadOutcomes, metaOk \in BOOLEAN : InstallDownload(o, metaOk)
    \/ \E copyOk \in BOOLEAN, rmOk \in BOOLEAN, renameOk \in BOOLEAN :
          InstallNested(copyOk, rmOk, renameOk)
    \/ InstallEnd
    \/ InstallAgain

SpecInstaller == InstallerInit /\ [][InstallerNext]_vars

----------------------------------------------------------------------------
(***************************************************************************)
(* Properties                                                              *)
(***************************************************************************)

\* Two different tasks
Distinct(t, u) == t \in Tasks /\ u \in Tasks /\ t # u

\* C1: two concurrent create_environment calls (dry_run = false) on the same
\* manager instance never have their `env create` subprocesses in flight at
\* the same time: one starts only after the other has completed.
C1_CreateInvocationsNeverOverlap ==
    \A t, u \in Tasks :
        (Distinct(t, u) /\ handle[t] # NoManager /\ handle[t].inst = handle[u].inst)
            => ~(proc[t] = "env_create" /\ proc[u] = "env_create")

\* C1's case: one call's `env create` runs while a second call on the same
\* instance, which will create too, waits for the lock
C1_Witness ==
    \E t, u \in Tasks :
        /\ Distinct(t, u)
        /\ handle[t] # NoManager
        /\ handle[t].inst = handle[u].inst
        /\ proc[t] = "env_create"
        /\ pc[u] = "ce_lock"
        /\ ~args[u].dry_run
        /\ args[u].yaml = "valid"

\* The positions of create_environment and install_packages at which the
\* `_lock` guard is alive
Guarded == {"ce_validate", "ce_wait", "ip_check", "ip_check_wait", "ip_install",
            "ip_wait"}

\* C2: every handle get_global_manager returned and every clone of a manager
\* points to the one creation lock of the global manager, and no two tasks
\* are inside the guarded sections of create_environment / install_packages
\* at the same time.
C2_OneCreationLock ==
    /\ \A t \in Tasks : handle[t] # NoManager => handle[t].lock = global.lock
    /\ \A t, u \in Tasks :
          Distinct(t, u) => ~(pc[t] \in Guarded /\ pc[u] \in Guarded)
    /\ \A t \in Tasks : pc[t] \in Guarded => lockHolder[handle[t].lock] = t

\* C2's case: two distinct manager values (handles of separate
\* get_global_manager calls or clones), one installing under the lock, the
\* other waiting to create
C2_Witness ==
    \E t, u \in Tasks :
        /\ Distinct(t, u)
        /\ handle[t] # NoManager /\ handle[u] # NoManager
        /\ handle[t].inst # handle[u].inst
        /\ pc[t] = "ip_wait"
        /\ pc[u] = "ce_lock"

\* Backend invocations that change environments
Mutating == {"env_create", "install", "env_remove"}

\* C3: remove_environment holds the manager's lock while its subprocess runs,
\* and among managers sharing a lock at most one mutating backend invocation
\* (create, install, remove) is in flight.
C3_RemoveHoldsLock ==
    /\ \A t \in Tasks : pc[t] = "rm_wait" => lockHolder[handle[t].lock] = t
    /\ \A t, u \in Tasks :
          (Distinct(t, u) /\ handle[t].lock = handle[u].lock)
              => ~(proc[t] \in Mutating /\ proc[u] \in Mutating)

\* The positions inside MicromambaManager::new
Constructing == {"new_detect", "new_path", "new_install", "new_init", "new_envs",
                 "new_env_wait"}

\* C4: at most one construction is in progress at any time; once the global
\* manager exists no task is constructing; the flag follows the singleton;
\* every handle a caller received has the global manager's kind, path and lock.
C4_SingleConstruction ==
    /\ Cardinality({t \in Tasks : pc[t] \in Constructing}) <= 1
    /\ global # NoManager => \A t \in Tasks : pc[t] \notin Constructing
    /\ initialized = (global # NoManager)
    /\ \A t \in Tasks :
          handle[t] # NoManager =>
              /\ global # NoManager
              /\ handle[t].pm_type = global.pm_type
              /\ handle[t].pm_path = global.pm_path
              /\ handle[t].lock = global.lock

\* C4's case: the construction has just succeeded in one task while a second
\* caller, which holds no manager yet, still waits for the singleton's mutex
C4_Witness ==
    \E t, u \in Tasks :
        /\ Distinct(t, u)
        /\ pc[t] = "ggm_clone"
        /\ ctor.task = t /\ ctor.stage = "built"
        /\ global # NoManager
        /\ pc[u] = "ggm_lock_global"
        /\ handle[u] = NoManager

\* The backend of kind pm is on the search path and passes its version check
Working(h, pm) == pm \in Recognized /\ h[Command(pm)] = "working"

\* k is what a walk through `order` on host h selects: the first working kind,
\* None if there is none
SelectedBy(order, h, k) ==
    IF \E i \in DOMAIN order : Working(h, order[i])
    THEN \E i \in DOMAIN order :
            /\ order[i] = k
            /\ Working(h, k)
            /\ \A j \in DOMAIN order : j < i => ~Working(h, order[j])
    ELSE k = "None"

\* C5: on a fresh detector with the default order, detect() returns (as a
\* value, never an error) the first of conda, mamba, micromamba that is on the
\* search path and passes its version check; a present but broken kind is
\* skipped; it returns None exactly when no kind passes both checks.
C5_FirstWorkingKind ==
    (dcall.op = "detect" /\ dcall.before = NewDetector) =>
        /\ dcall.ok
        /\ dcall.ret =
              (IF dhost["conda"] = "working" THEN "Conda"
               ELSE IF dhost["mamba"] = "working" THEN "Mamba"
               ELSE IF dhost["micromamba"] = "working" THEN "Micromamba"
               ELSE "None")
        /\ (dcall.ret = "None") = (\A c \in CommandNames : dhost[c] # "working")

\* C5's case: conda is on the path but broken, mamba works: mamba is returned
C5_Witness ==
    /\ dcall.op = "detect"
    /\ dcall.before = NewDetector
    /\ dhost["conda"] = "broken"
    /\ dhost["mamba"] = "working"
    /\ dcall.ret = "Mamba"

\* C6: once a kind K (None included) is memoized on a detector, every later
\* detect() returns K and runs no probe, whatever the host has become.
C6_DetectMemoized ==
    (dcall.op = "detect" /\ dcall.before.detected # "unset") =>
        /\ dcall.ok
        /\ dcall.ret = dcall.before.detected
        /\ dcall.checked = <<>>
        /\ dcall.probes = <<>>
        /\ det = dcall.before

\* C6's case: None was memoized by an earlier detect(), conda has become
\* available since, and detect() was called again
C6_Witness ==
    /\ dcall.op = "detect"
    /\ dcall.before.order = DefaultOrder
    /\ dcall.before.detected = "None"
    /\ dhost["conda"] = "working"
    /\ dcall.ret = "None"

\* The override value of the last call names no kind, or a kind that fails
\* its availability check
OverrideIgnored ==
    /\ dcall.op = "override"
    /\ dcall.arg # "unset"
    /\ ~Working(dhost, OverrideKind(dcall.arg))

\* C7 as stated, on a detector with the default order: with an override that
\* is unrecognized or names an unavailable kind, detect_with_env_override
\* never errors and returns the first working kind in the order conda, mamba,
\* micromamba, or None when none works.
C7_OverrideFallsBackToFirstWorking ==
    (OverrideIgnored /\ dcall.before.order = DefaultOrder) =>
        /\ dcall.ok
        /\ SelectedBy(DefaultOrder, dhost, dcall.ret)

\* C7 amended: with such an override, detect_with_env_override never errors
\* and returns what detect() returns on that detector: the memoized kind if
\* one is memoized, otherwise the first working kind in the detector's order
\* (conda, mamba, micromamba by default), or None when none works.
C7_OverrideFallsBackToDetect ==
    OverrideIgnored =>
        /\ dcall.ok
        /\ IF dcall.before.detected # "unset"
           THEN dcall.ret = dcall.before.detected
           ELSE SelectedBy(dcall.before.order, dhost, dcall.ret)

\* C7's case: the override names conda, conda is broken, nothing is memoized,
\* and the fallback selects mamba
C7_Witness ==
    /\ dcall.op = "override"
    /\ dcall.arg = "conda"
    /\ dcall.before = NewDetector
    /\ dhost["conda"] = "broken"
    /\ dhost["mamba"] = "working"
    /\ dcall.ok
    /\ dcall.ret = "Mamba"

\* C8: whenever detection in new() resolves to None, new() ends with a
\* configuration error: no path is resolved, no manager is built, the
\* singleton stays empty and the caller gets the error.
C8_NoneIsConfigError ==
    (ctor.via = "new" /\ ctor.pm_type = "None" /\ ctor.stage # "detected") =>
        /\ ctor.stage = "failed"
        /\ ctor.err = "Config"
        /\ res[ctor.task] = "Config"
        /\ ~ctor.installer
        /\ global = NoManager
        /\ ~initialized

\* C8's case: micromamba is on the path but broken, nothing else is there:
\* detection gave None and new() has failed
C8_Witness ==
    /\ ctor.via = "new"
    /\ ctor.pm_type = "None"
    /\ ctor.stage = "failed"
    /\ ctor.saw.avail["micromamba"] = "broken"
    /\ res[ctor.task] = "Config"

\* A host where micromamba is neither on the path nor in a common location and
\* neither conda nor mamba is available
NothingAvailable(h) ==
    /\ h.avail["micromamba"] = "absent"
    /\ ~h.common
    /\ h.avail["conda"] # "working"
    /\ h.avail["mamba"] # "working"

\* C9: a construction through new() on a host where micromamba is missing and
\* no other backend is available has run the installer by the time it ends.
C9_InstallerRunsWhenNothingAvailable ==
    (ctor.via = "new" /\ ctor.stage \in {"failed", "built"}
                      /\ NothingAvailable(ctor.saw))
        => ctor.installer

\* C10: create_environment with dry_run = true spawns no subprocess and
\* returns what the validation of the YAML file returned, for every file; the
\* create command in dry-run mode never reaches create_environment and never
\* spawns `env create`.
C10_DryRunSpawnsNothing ==
    \A t \in Tasks :
        /\ (cmd[t] = "none" /\ args[t].dry_run) =>
              /\ proc[t] = "none"
              /\ spawned[t] = {}
              /\ pc[t] \in {"ce_lock", "ce_validate", "done"}
              /\ pc[t] = "done" => res[t] = ValidateYaml(args[t].yaml)
        /\ (cmd[t] = "env_create" /\ args[t].dry_run) =>
              /\ proc[t] # "env_create"
              /\ "env_create" \notin spawned[t]
              /\ pc[t] \notin {"ec_loop", "ce_lock", "ce_validate", "ce_wait",
                                "ce_ret"}

\* C10's case: a dry run of create_environment on a valid file has returned
C10_Witness ==
    \E t \in Tasks :
        /\ cmd[t] = "none"
        /\ args[t].dry_run
        /\ args[t].yaml = "valid"
        /\ pc[t] = "done"
        /\ res[t] = "Ok"
        /\ handle[t] # NoManager

\* C11: validate_yaml on a document that does not parse returns a validation
\* error and spawns nothing; create_environment given such a file, dry run or
\* not, returns that error with no subprocess spawned, and an `env create` is
\* only ever in flight for a file that passed validation.
C11_InvalidYamlIsValidationError ==
    \A t \in Tasks :
        /\ (cmd[t] = "none" /\ args[t].yaml = "malformed") =>
              /\ proc[t] = "none"
              /\ spawned[t] = {}
              /\ pc[t] \in {"ce_lock", "ce_validate", "done"}
              /\ pc[t] = "done" => res[t] = "Validation"
        /\ (cmd[t] = "env_create" /\ args[t].yaml = "malformed"
                                  /\ pc[t] = "ce_ret") =>
              /\ proc[t] = "none"
              /\ res[t] = "Validation"
        /\ pc[t] = "ce_wait" => args[t].yaml \notin {"malformed", "unreadable"}

\* C11's case: create_environment (not a dry run) on a document that does not
\* parse has returned the validation error
C11_Witness ==
    \E t \in Tasks :
        /\ cmd[t] = "none"
        /\ args[t].op = "none"
        /\ args[t].yaml = "malformed"
        /\ ~args[t].dry_run
        /\ pc[t] = "done"
        /\ res[t] = "Validation"
        /\ spawned[t] = {}

\* The last call is validate_yaml on a readable file whose text parses to a
\* mapping
ValidatedMapping ==
    /\ pcall.op = "validate_yaml"
    /\ pcall.arg.readable
    /\ pcall.arg.parses
    /\ pcall.arg.root = "mapping"

\* C12 as stated: validate_yaml on a document with a name field and a
\* non-empty dependency sequence returns syntax_valid = true, the declared
\* name and estimated_packages equal to the sequence length; on a document
\* with no dependencies key it returns syntax_valid = false and
\* estimated_packages = 0.
C12_ValidationResultFields ==
    ValidatedMapping =>
        /\ pcall.out.err = "Ok"
        /\ (pcall.arg.name.type # "absent" /\ pcall.arg.deps.type = "sequence"
                                           /\ pcall.arg.deps.len > 0) =>
              /\ pcall.out.syntax_valid
              /\ pcall.out.environment = pcall.arg.name.text
              /\ pcall.out.estimated_packages = pcall.arg.deps.len
        /\ pcall.arg.deps.type = "absent" =>
              /\ ~pcall.out.syntax_valid
              /\ pcall.out.estimated_packages = 0

\* C12 amended: the name returned is the declared one when the name entry is
\* a string, and "unknown" when it is absent or of another type; the rest as
\* stated.
C12_ValidationResultStringName ==
    ValidatedMapping =>
        /\ pcall.out.err = "Ok"
        /\ pcall.out.environment =
              (IF pcall.arg.name.type = "string" THEN pcall.arg.name.text
               ELSE "unknown")
        /\ (pcall.arg.deps.type = "sequence" /\ pcall.arg.deps.len > 0) =>
              /\ pcall.out.syntax_valid
              /\ pcall.out.estimated_packages = pcall.arg.deps.len
        /\ pcall.arg.deps.type = "absent" =>
              /\ ~pcall.out.syntax_valid
              /\ pcall.out.estimated_packages = 0

\* C12's case: a document named test-env with two dependencies was validated
C12_Witness ==
    /\ ValidatedMapping
    /\ pcall.arg.name = [type |-> "string", text |-> "test-env"]
    /\ pcall.arg.deps = [type |-> "sequence", len |-> MaxDeps]
    /\ pcall.out.environment = "test-env"
    /\ pcall.out.syntax_valid
    /\ pcall.out.estimated_packages = MaxDeps

\* C13: when the run command's existence check reports the environment
\* absent, the command fails at once with an execution error and the
\* backend's run subcommand is never spawned.
C13_RunFailsOnAbsentEnvironment ==
    \A t \in Tasks :
        (cmd[t] = "env_run" /\ args[t].exists = "false") =>
            /\ pc[t] = "done"
            /\ res[t] = "Execution"
            /\ proc[t] = "none"
            /\ "run" \notin spawned[t]

\* C13's case: the listing has run, the environment was not in it, the
\* command has ended
C13_Witness ==
    \E t \in Tasks :
        /\ cmd[t] = "env_run"
        /\ args[t].exists = "false"
        /\ "env_list" \in spawned[t]
        /\ pc[t] = "done"
        /\ res[t] = "Execution"

\* C14: when the subprocess of the run command exits with code 141, the run
\* command returns success, whether the output was captured or not.
C14_BrokenPipeIsSuccess ==
    \A t \in Tasks :
        (cmd[t] = "env_run" /\ args[t].code = {BrokenPipe}) =>
            /\ pc[t] \in {"rx_ret", "done"}
            /\ pc[t] = "done" => res[t] = "Ok"

\* C14's case: without capture, the subprocess exited with 141 and the run
\* command has returned
C14_Witness ==
    \E t \in Tasks :
        /\ cmd[t] = "env_run"
        /\ ~args[t].capture
        /\ args[t].exists = "true"
        /\ args[t].code = {BrokenPipe}
        /\ pc[t] = "done"
        /\ res[t] = "Ok"

\* C16: a run command given a variable pair without '=' fails with a
\* validation error before the manager is fetched: no lock was taken, no
\* manager is held, nothing was spawned, no command was built.
C16_BadEnvPairFailsFirst ==
    \A t \in Tasks :
        (cmd[t] = "env_run" /\ args[t].argcheck = "bad_env_pair") =>
            /\ pc[t] = "done"
            /\ res[t] = "Validation"
            /\ handle[t] = NoManager
            /\ spawned[t] = {}
            /\ proc[t] = "none"
            /\ gmLock # t /\ giLock # t
            /\ ctor.task # t

\* C16's case: the run command with such a pair has returned
C16_Witness ==
    \E t \in Tasks :
        /\ cmd[t] = "env_run"
        /\ args[t].argcheck = "bad_env_pair"
        /\ pc[t] = "done"
        /\ res[t] = "Validation"

\* C17: when install_packages finds the environment absent it returns an
\* execution error, never spawns the install subcommand, and no longer
\* holds the creation lock.
C17_InstallFailsOnAbsentEnvironment ==
    \A t \in Tasks :
        (cmd[t] \in {"none", "env_install"} /\ args[t].exists = "false") =>
            /\ pc[t] \in {"ip_ret", "done"}
            /\ res[t] = "Execution"
            /\ proc[t] = "none"
            /\ "install" \notin spawned[t]
            /\ \A l \in LockIds : lockHolder[l] # t

\* C17's case: install_packages took the lock, ran the listing, found the
\* environment absent and has returned
C17_Witness ==
    \E t \in Tasks :
        /\ cmd[t] \in {"none", "env_install"}
        /\ args[t].exists = "false"
        /\ "env_list" \in spawned[t]
        /\ pc[t] = "done"
        /\ res[t] = "Execution"
        /\ lockHolder[handle[t].lock] = 0

\* C15 (for the validate command): after one of its existence checks exited
\* with a non-zero code other than the broken pipe's, the command does not
\* return success.
C15_NonZeroExitFailsValidate ==
    \A t \in Tasks :
        (cmd[t] = "env_validate" /\ args[t].bad /\ pc[t] = "done") =>
            res[t] # "Ok"

\* C18: when list_environments has returned, the registry is what it was
\* at the call, and the result holds exactly one entry per registry entry,
\* with status Ready if the check answered that the environment exists,
\* NotInstalled if it answered that it does not, Error if the check failed.
C18_ListIsSnapshot ==
    (lcall.op = "list_environments" /\ lcall.res = "Ok") =>
        /\ registry = lcall.before
        /\ Len(lcall.out) = Cardinality(DOMAIN registry)
        /\ \A n \in DOMAIN registry :
              \E i \in 1..Len(lcall.out) : lcall.out[i].name = n
        /\ \A i \in 1..Len(lcall.out) :
              /\ lcall.out[i].name \in DOMAIN registry
              /\ lcall.out[i].status = "Ready" <=> lcall.out[i].check = "true"
              /\ lcall.out[i].status = "NotInstalled" <=>
                    lcall.out[i].check = "false"
              /\ lcall.out[i].status = "Error" <=>
                    lcall.out[i].check \in {"Execution", "Validation"}

\* C18's case: a registry of several entries stored as Installed was
\* listed while one environment existed, one did not and one check failed
C18_Witness ==
    /\ lcall.op = "list_environments"
    /\ lcall.res = "Ok"
    /\ Cardinality(DOMAIN registry) > 1
    /\ \E n \in DOMAIN registry : registry[n] = "Installed"
    /\ \E i, j \in 1..Len(lcall.out) :
          /\ lcall.out[i].status = "Ready"
          /\ lcall.out[j].status = "Error"

\* The lines C19 says yield an entry: neither blank nor starting with '#',
\* with at least two tokens
TwoTokenLine(l) == ~Skipped(l) /\ Len(l.tokens) >= 2

\* The lines that do: those, but for an active marker with nothing after it
YieldingLine(l) ==
    TwoTokenLine(l) /\ ~(l.tokens[2] = "*" /\ Len(l.tokens) < 3)

\* C19 as stated: parse_conda_env_list gives one entry for each line that
\* is neither blank nor starts with '#' and has at least two tokens, in
\* input order; the name is the first token, the entry is active iff the
\* second token is '*', the prefix is the third token when active and the
\* second otherwise.
C19_EveryTwoTokenLineYields ==
    pcall.op = "parse_conda_env_list" =>
        LET kept == SelectSeq(pcall.arg, TwoTokenLine)
        IN  /\ Len(pcall.out) = Len(kept)
            /\ \A i \in 1..Len(kept) :
                  /\ pcall.out[i].name = kept[i].tokens[1]
                  /\ pcall.out[i].is_active <=> kept[i].tokens[2] = "*"
                  /\ pcall.out[i].prefix =
                        kept[i].tokens[IF kept[i].tokens[2] = "*" THEN 3 ELSE 2]

\* C19, amended: the same, except that a line whose second token is '*' and
\* that has no third token yields no entry.
C19_YieldingLinesInOrder ==
    pcall.op = "parse_conda_env_list" =>
        LET kept == SelectSeq(pcall.arg, YieldingLine)
        IN  /\ Len(pcall.out) = Len(kept)
            /\ \A i \in 1..Len(kept) :
                  /\ pcall.out[i].name = kept[i].tokens[1]
                  /\ pcall.out[i].is_active <=> kept[i].tokens[2] = "*"
                  /\ pcall.out[i].prefix =
                        kept[i].tokens[IF kept[i].tokens[2] = "*" THEN 3 ELSE 2]

\* C19's case: `base * /opt/pm` then `base /opt/pm` parsed to an active
\* and an inactive entry
C19_Witness ==
    /\ pcall.op = "parse_conda_env_list"
    /\ pcall.arg = <<[indent |-> FALSE, tokens |-> <<"base", "*", "/opt/pm">>],
                     [indent |-> FALSE, tokens |-> <<"base", "/opt/pm">>]>>
    /\ pcall.out = <<[name |-> "base", prefix |-> "/opt/pm", is_active |-> TRUE],
                     [name |-> "base", prefix |-> "/opt/pm", is_active |-> FALSE]>>

\* An invocation that found its target path existing: it made no request,
\* ran no extraction, wrote nothing, left the path as it was and returned it
SkippedWhenPresent ==
    (inst.stage # "idle" /\ inst.supported /\ inst.dirKnown
                        /\ inst.start # "absent") =>
        /\ inst.stage = "done"
        /\ inst.res = "Ok"
        /\ inst.requests = 0
        /\ ~inst.extracted
        /\ ~inst.wrote
        /\ inst.target = inst.start

\* C20 as stated: an invocation that finds the target path existing makes
\* no network request, no extraction and no write and returns the path; and
\* of two consecutive invocations only the first makes network requests.
C20_OnlyFirstInvocationDownloads ==
    /\ SkippedWhenPresent
    /\ inst.runs > 0 => inst.requests = 0

\* C20, amended: the same for an existing target path; and an invocation
\* that follows one that returned success makes no network request.
C20_NoDownloadAfterSuccess ==
    /\ SkippedWhenPresent
    /\ (inst.runs > 0 /\ inst.prev.res = "Ok") => inst.requests = 0

\* C20's case: a first invocation downloaded and returned the path, the
\* second found it and returned it at once
C20_Witness ==
    /\ inst.runs > 0
    /\ inst.prev.res = "Ok"
    /\ inst.prev.requests > 0
    /\ inst.stage = "done"
    /\ inst.start # "absent"
    /\ inst.res = "Ok"
    /\ inst.requests = 0

\* C21: an invocation in which every source was tried and none placed a
\* payload returns a network error, never success.
C21_AllSourcesFailedIsNetworkError ==
    (inst.stage = "done" /\ Len(inst.contacted) = NumSources /\ ~inst.placed) =>
        inst.res = "Network"

\* C28: when the installer returns success the target path is a regular
\* file, not a directory and not a directory holding bin/micromamba.
C28_SuccessMeansFlatBinary ==
    (inst.stage = "done" /\ inst.res = "Ok") => inst.target = "file"

\* The sources are contacted in the order primary, secondary, each at most
\* once
ContactedInOrder ==
    /\ Len(inst.contacted) <= NumSources
    /\ \A i \in 1..Len(inst.contacted) : inst.contacted[i].source = i

\* C29 as stated: the sources are contacted in order, each at most once,
\* the secondary only after the primary attempt failed, and none after a
\* payload has been placed.
C29_NoContactAfterPlacement ==
    /\ ContactedInOrder
    /\ \A i \in 1..Len(inst.contacted) : ~inst.contacted[i].placed

\* C29, amended: the same, except that a source is contacted after a
\* placement when reading the placed path's metadata failed.
C29_ContactAfterPlacementOnlyOnMetadataFailure ==
    /\ ContactedInOrder
    /\ \A i \in 1..Len(inst.contacted) :
          inst.contacted[i].placed => inst.meta_failed
    /\ (inst.placed /\ ~inst.meta_failed) =>
          /\ inst.stage \in {"nested", "check", "done"}
          /\ inst.source = Len(inst.contacted)

\* C29's case: the primary answered with an HTML page, the secondary was
\* contacted and its payload placed, and the invocation has ended
C29_Witness ==
    /\ inst.stage = "done"
    /\ Len(inst.contacted) = NumSources
    /\ inst.placed
    /\ ~inst.meta_failed
    /\ ~inst.contacted[NumSources].placed

\* A create command that is not a dry run, got its manager, had targets
\* and has returned
CreateCommandDone(t) ==
    /\ cmd[t] = "env_create"
    /\ ~args[t].dry_run
    /\ args[t].targets > 0
    /\ handle[t] # NoManager
    /\ pc[t] = "done"

\* Every target was attempted once, in order, the results were counted, and
\* the command failed iff a target did
AllTargetsAttempted(t) ==
    /\ args[t].attempted = [i \in 1..args[t].targets |-> i]
    /\ args[t].succeeded + args[t].failed = args[t].targets
    /\ res[t] = (IF args[t].failed > 0 THEN "Execution" ELSE "Ok")

\* C22 as stated: the create command attempts every target exactly once, in
\* order, whatever the earlier targets' results, counts successes and
\* failures, and returns an error iff at least one target failed.
C22_EveryTargetAttempted ==
    \A t \in Tasks : CreateCommandDone(t) => AllTargetsAttempted(t)

\* C22, amended: the same, unless the current directory could not be read
\* when a target's default YAML path was resolved: then the command returned
\* a file-operation error at once, that target and the later ones
\* unattempted.
C22_EveryTargetAttemptedUnlessCwdFails ==
    \A t \in Tasks :
        CreateCommandDone(t) =>
            IF args[t].cwd_failed
            THEN /\ res[t] = "FileOperation"
                 /\ args[t].sel = "ok"
                 /\ Len(args[t].attempted) < args[t].targets
                 /\ args[t].attempted = [i \in 1..Len(args[t].attempted) |-> i]
            ELSE AllTargetsAttempted(t)

\* C22's case: several targets, the first failed, a later one succeeded, and
\* the command returned an error
C22_Witness ==
    \E t \in Tasks :
        /\ CreateCommandDone(t)
        /\ args[t].targets > 1
        /\ Len(args[t].attempted) = args[t].targets
        /\ args[t].failed > 0
        /\ args[t].succeeded > 0
        /\ args[t].yaml = "valid"
        /\ res[t] = "Execution"

\* s holds sub as a contiguous part
Contains(s, sub) ==
    \E i \in 0..(Len(s) - Len(sub)) : SubSeq(s, i + 1, i + Len(sub)) = sub

\* "<command> run -n <env>"
RunCommandLine(pm, env) ==
    CommandText(pm) \o <<" ", "r", "u", "n", " ", "-", "n", " ">> \o env

\* C23: for each recognized kind and every environment name E, run_syntax
\* gives "<command> run -n E", which holds the command name and E; for the
\* None kind it gives E alone; and a detector that has detected nothing
\* gives E as its run command.
C23_RunSyntaxShape ==
    /\ pcall.op = "run_syntax" =>
          IF pcall.arg[1] \in Recognized
          THEN /\ pcall.out = RunCommandLine(pcall.arg[1], pcall.arg[2])
               /\ Contains(pcall.out, CommandText(pcall.arg[1]))
               /\ Contains(pcall.out, pcall.arg[2])
          ELSE pcall.out = pcall.arg[2]
    /\ pcall.op = "get_run_command" =>
          IF pcall.arg[1] \in Recognized
          THEN pcall.out = RunCommandLine(pcall.arg[1], pcall.arg[2])
          ELSE pcall.out = pcall.arg[2]

\* C23's case: run_syntax was called on a recognized kind with a name that
\* has a space in it
C23_Witness ==
    /\ pcall.op = "run_syntax"
    /\ pcall.arg = <<"Micromamba", <<"e", " ">>>>
    /\ Len(pcall.out) > Len(pcall.arg[2])

\* The names list_environments returned
ListedNames == {lcall.out[i].name : i \in 1..Len(lcall.out)}

\* C24 as stated: for a manager constructed by with_config_dir over any
\* configuration directory, list_environments returns at least four entries,
\* one for each of the four recognized names.
C24_ListHasAllRecognizedNames ==
    (lcall.op = "list_environments" /\ lcall.res = "Ok" /\ lcall.dir.built) =>
        /\ Len(lcall.out) >= NumEnvNames
        /\ ListedNames = EnvNames

\* C24, amended: a manager constructed by with_config_dir holds one entry
\* for each recognized name whose file is in the configuration directory
\* once the templates were copied: the files that were there, and the
\* templates the build has unless copying was skipped; list_environments
\* returns exactly one entry for each of these.
C24_ListHasNamesWithFiles ==
    /\ (lcall.op = "with_config_dir" /\ lcall.res = "Ok") =>
          DOMAIN registry =
              (IF lcall.dir.skipped THEN lcall.dir.files
               ELSE lcall.dir.files \cup lcall.dir.srcs)
    /\ (lcall.op = "list_environments" /\ lcall.res = "Ok" /\ lcall.dir.built) =>
          /\ ListedNames = DOMAIN registry
          /\ Len(lcall.out) = Cardinality(DOMAIN registry)

\* C24's case: a manager was constructed over a directory that held none of
\* the files, all four templates were copied, and the list has four entries
C24_Witness ==
    /\ lcall.op = "list_environments"
    /\ lcall.res = "Ok"
    /\ lcall.dir.built
    /\ ListedNames = EnvNames
    /\ Len(lcall.out) = NumEnvNames

\* update_environment_statuses has returned success
UpdateSucceeded ==
    lcall.op = "update_environment_statuses" /\ lcall.res = "Ok"

\* C27 as stated: after update_environment_statuses returns success, every
\* entry has status Ready iff the backend reported its environment as
\* existing; in particular an entry whose environment does not exist never
\* keeps status Installed or Ready.
C27_StatusesFollowBackend ==
    UpdateSucceeded =>
        \A n \in DOMAIN registry :
            /\ registry[n] = "Ready" <=> lcall.answers[n] = "true"
            /\ lcall.answers[n] = "false" =>
                  registry[n] \notin {"Installed", "Ready"}

\* What does hold after a successful update: Ready marks exactly the
\* environments reported as existing
ReadyIffExists ==
    UpdateSucceeded =>
        /\ DOMAIN lcall.answers = DOMAIN registry
        /\ \A n \in DOMAIN registry :
              registry[n] = "Ready" <=> lcall.answers[n] = "true"

\* An update demoted a Ready entry whose environment was gone
DemotedReady ==
    /\ UpdateSucceeded
    /\ \E n \in DOMAIN registry :
          /\ lcall.before[n] = "Ready"
          /\ lcall.answers[n] = "false"
          /\ registry[n] = "NotInstalled"

\* The holder of the lock task t is waiting to acquire at its position, 0 if
\* the lock is free or t is not at an acquisition
AwaitedHolder(t) ==
    IF pc[t] = "ggm_lock_global" THEN gmLock
    ELSE IF pc[t] = "ggm_lock_init" THEN giLock
    ELSE IF pc[t] \in {"ce_lock", "ip_lock"} /\ handle[t].lock \in LockIds
    THEN lockHolder[handle[t].lock]
    ELSE 0

\* The tasks of S wait for locks held within S
WaitCycle(S) == S # {} /\ \A t \in S : AwaitedHolder(t) \in S

\* C25: the system never deadlocks on its locks: no task waits for a lock it
\* holds and no cycle of lock waits forms. install_packages holds the
\* creation lock while environment_exists runs, which waits for no lock;
\* get_global_manager holds the global-manager lock whenever it holds the
\* initialized-flag lock; construction runs under both and waits for none.
C25_NoLockDeadlock ==
    /\ \A t \in Tasks : AwaitedHolder(t) # t
    /\ \A S \in SUBSET Tasks : ~WaitCycle(S)
    /\ \A t \in Tasks :
          /\ pc[t] \in {"ip_check", "ip_check_wait"} =>
                lockHolder[handle[t].lock] = t /\ AwaitedHolder(t) = 0
          /\ giLock = t => gmLock = t
          /\ pc[t] \in Constructing =>
                gmLock = t /\ giLock = t /\ AwaitedHolder(t) = 0

\* C25's case: one task checks existence inside install_packages, holding
\* the creation lock another task is waiting for
C25_Witness ==
    \E t, u \in Tasks :
        /\ pc[t] = "ip_check_wait"
        /\ pc[u] \in {"ce_lock", "ip_lock"}
        /\ AwaitedHolder(u) = t

\* Task t's create or install command returned one of its own validation
\* errors: nothing selected, --yaml without --name, no packages
CommandValidationError(t) ==
    /\ pc[t] = "done"
    /\ res[t] = "Validation"
    /\ \/ cmd[t] = "env_create" /\ args[t].sel \in {"none_selected", "yaml_no_name"}
       \/ cmd[t] = "env_install" /\ args[t].packages = "empty"

\* C26: for the create and install commands every validation error (no
\* environment selected, --yaml without --name, empty package list) is
\* returned before any subprocess has been spawned, the detector's version
\* probes and the constructor's existence checks included.
C26_ValidationBeforeAnySpawn ==
    \A t \in Tasks : CommandValidationError(t) => spawned[t] = {}

\* Subprocess k is started from the resolved backend path with the backend's
\* directories first in PATH and LD_LIBRARY_PATH, whatever the host's
\* variables
StartedShaped(k) ==
    \A e \in HostEnvs :
        LET c == SpawnedCommand(k, e)
        IN  /\ c.program = "pm_path"
            /\ c.env.PATH = <<"pm_dir">> \o e.PATH
            /\ c.env.LD_LIBRARY_PATH = <<"pm_dir/lib">> \o e.LD_LIBRARY_PATH

\* C30: every backend subprocess the manager spawns (version check, env
\* create, env list --json, plain env list, run, remove, install) is started
\* from the resolved backend path with the shaped variables applied.
C30_EverySpawnShaped ==
    \A t \in Tasks : \A k \in spawned[t] \cap ManagerSpawns : StartedShaped(k)

\* The positions of create_environment and install_packages at which the
\* `_lock` guard is alive
UnderCreationLock ==
    {"ce_validate", "ce_wait", "ip_check", "ip_check_wait", "ip_install",
     "ip_wait"}

\* A task holds a creation lock only inside one of the two operations
LockReleasedOnExit ==
    \A t \in Tasks : \A l \in LockIds :
        lockHolder[l] = t => pc[t] \in UnderCreationLock

\* C31: the creation lock is released on every exit path of
\* create_environment and install_packages, and, subprocesses terminating
\* and scheduling being fair, every task waiting for the lock eventually
\* acquires it.
C31_WaitersEventuallyAcquire ==
    /\ []LockReleasedOnExit
    /\ \A t \in Tasks :
          (pc[t] \in {"ce_lock", "ip_lock"}) ~>
              (\E l \in LockIds : lockHolder[l] = t)

\* C31's case: a task waits for the creation lock while another holds it
\* with its backend subprocess running
C31_Witness ==
    \E t, u \in Tasks :
        /\ pc[t] \in {"ce_lock", "ip_lock"}
        /\ pc[u] \in {"ce_wait", "ip_wait"}
        /\ proc[u] # "none"
        /\ lockHolder[handle[t].lock] = u

\* In this step task t's construction inside get_global_manager fails
ConstructionFails(t) ==
    /\ pc[t] \in Constructing
    /\ pc'[t] \notin Constructing
    /\ ctor'.via = "new"
    /\ ctor'.task = t
    /\ ctor'.stage = "failed"

\* In this step task t, inside get_global_manager, has both locks and looks
\* at the singleton
LooksAtSingleton(t) == pc[t] = "ggm_lock_init" /\ pc'[t] # "ggm_lock_init"

\* No get_global_manager call is in progress
NoCallInProgress == gmLock = 0 /\ giLock = 0

\* C32: if construction inside get_global_manager fails, the error is
\* returned to that caller, both global locks are released, the singleton
\* stays unset and the flag false, and a later call constructs again;
\* whenever no call is in progress the flag is true iff the singleton is set.
C32_FailedConstructionLeavesNothing ==
    /\ [](NoCallInProgress => (initialized <=> global # NoManager))
    /\ [][\A t \in Tasks :
            /\ ConstructionFails(t) =>
                  /\ res'[t] \notin {"Ok", "none"}
                  /\ res'[t] = ctor'.err
                  /\ gmLock' = 0 /\ giLock' = 0
                  /\ global' = NoManager /\ ~initialized'
            /\ (LooksAtSingleton(t) /\ global = NoManager) =>
                  pc'[t] = "new_detect"]_vars

\* C32's case: one task got the error of its failed construction, the locks
\* are with a second task, which is constructing again
C32_Witness ==
    \E t, u \in Tasks :
        /\ pc[t] = "done"
        /\ res[t] \notin {"Ok", "none"}
        /\ handle[t] = NoManager
        /\ pc[u] \in Constructing
        /\ gmLock = u /\ giLock = u
        /\ global = NoManager /\ ~initialized

\* run_in_environment_extended has returned to task t after its subprocess
\* exited with 141: to execute_env_run, or to a direct caller
RunOperationReturned141(t) ==
    /\ args[t].code = {BrokenPipe}
    /\ \/ pc[t] = "rx_ret"
       \/ pc[t] = "done" /\ cmd[t] = "none"

CalledWithCache ==
    /\ dcall.op \in {"detect", "specific", "override"}
    /\ dcall.before.detected # "unset"

\* The kind the last call forced, "None" if it forced none: the argument of
\* detect_specific, or the kind ENVA_PACKAGE_MANAGER names
ForcedKind ==
    IF dcall.op = "specific" THEN dcall.arg
    ELSE IF dcall.op = "override" /\ dcall.arg # "unset"
    THEN OverrideKind(dcall.arg) ELSE "None"

\* C34 as stated: once a detector has cached a kind, no later call on it
\* (detect, detect_specific, detect_with_env_override) changes the cached
\* kind or returns a different kind.
C34_CacheNeverChanges ==
    CalledWithCache =>
        /\ det.detected = dcall.before.detected
        /\ dcall.ret = dcall.before.detected

\* C34, amended: once a detector has cached a kind, detect() never changes
\* or contradicts it; detect_specific, and detect_with_env_override when the
\* variable names a kind, replace the cached kind by the forced kind and
\* return it whenever the forced kind is available, and otherwise return the
\* cached kind unchanged.
C34_CacheChangesOnlyWhenForced ==
    CalledWithCache =>
        IF CheckAvailable(dhost, ForcedKind)
        THEN det.detected = ForcedKind /\ dcall.ret = ForcedKind
        ELSE /\ det.detected = dcall.before.detected
             /\ dcall.ret = dcall.before.detected

\* C34's case: conda was cached and detect_specific(Mamba), mamba being
\* available, replaced it
C34_Witness ==
    /\ dcall.op = "specific"
    /\ dcall.arg = "Mamba"
    /\ dcall.before.detected = "Conda"
    /\ det.detected = "Mamba"
    /\ dcall.ret = "Mamba"

\* Pair i is the last of the pairs to set its key
LastForKey(pairs, i) ==
    /\ pairs[i].eq
    /\ \A j \in (i + 1)..Len(pairs) : ~(pairs[j].eq /\ pairs[j].key = pairs[i].key)

\* C35: for every caller-supplied pair KEY=VALUE passed to the run
\* operation, the subprocess sees KEY set to VALUE, also when KEY is PATH or
\* LD_LIBRARY_PATH: the caller's pairs take precedence over the manager's
\* standard variables.
C35_CallerPairsWin ==
    pcall.op = "run_env" =>
        \A i \in 1..Len(pcall.arg[1]) :
            LastForKey(pcall.arg[1], i) =>
                pcall.out[pcall.arg[1][i].key] = pcall.arg[1][i].value

\* C36: validate_yaml reports syntax_valid = true only when the document's
\* dependencies entry is a non-empty list; a document whose dependencies key
\* is present but empty, or is not a list, yields syntax_valid = false.
C36_SyntaxValidNeedsDependencies ==
    (pcall.op = "validate_yaml" /\ pcall.out.err = "Ok") =>
        (pcall.out.syntax_valid <=>
            (GetDeps(pcall.arg).type = "sequence" /\ GetDeps(pcall.arg).len > 0))

\* update_environment_statuses has returned an error
UpdateFailed ==
    lcall.op = "update_environment_statuses" /\ lcall.res \notin {"none", "Ok"}

\* C37: if update_environment_statuses returns an error (the existence check
\* failed for some entry), the registry is exactly as it was before the
\* call: no entry's status has been changed.
C37_FailedUpdateChangesNothing ==
    UpdateFailed => registry = lcall.before

\* Task t's validate command over all environments has made its existence
\* checks and returned
ValidateAllDone(t) ==
    /\ cmd[t] = "env_validate"
    /\ args[t].all
    /\ args[t].todo = 0
    /\ pc[t] = "done"

\* C38: for the validate command over all environments, success or failure
\* depends only on the existence checks' results and not on the JSON flag.
\* Without the flag the command succeeds iff every check answered that the
\* environment exists, so two runs that differ only in the flag agree iff
\* every run, with the flag or without, succeeds iff every check did.
C38_OutcomeIgnoresJsonFlag ==
    \A t \in Tasks :
        ValidateAllDone(t) => (res[t] = "Ok" <=> args[t].valid)

\* The name field of the entry initialize_environments stores under key k
EntryName(k) == k

\* The recognized files the directory held when initialize_environments
\* looked at it
FilesAtConstruction ==
    IF lcall.dir.skipped THEN lcall.dir.files
    ELSE lcall.dir.files \cup lcall.dir.srcs

=============================================================================
